---- MODULE Spec2Model ----
(***************************************************************************)
(* Session state, session guard, smart budget loader and dynamic invoker   *)
(* of the actual-mcp server (src/src/index.ts, src/src/smart-budget.ts,    *)
(* src/src/tools/list-methods.ts, execute-aql-query.ts, get-rules.ts).     *)
(*                                                                         *)
(* Every tool invocation is an async handler.  The code between two awaits *)
(* runs atomically on the single JavaScript thread, so each action below   *)
(* is one such run: it starts when an awaited promise settles and ends at  *)
(* the next await (or at the handler's return).  The underlying client     *)
(* (@actual-app/api) is the environment: an awaited client call resolves   *)
(* or rejects nondeterministically.                                        *)
(***************************************************************************)
EXTENDS Integers, Sequences, FiniteSets, TLC

\* JavaScript null and undefined, kept distinct (undefined !== null).
Null == "<null>"
Undef == "<undefined>"

\* Number of tool invocations of one behaviour; they may all overlap.
MaxCalls == 2

\* The activation frames of the handlers: the k-th invocation runs in frame k.
Procs == 1..MaxCalls

\* JavaScript truthiness of a string | null | undefined value.
Falsy(x) == x \in {Null, Undef, ""}
Truthy(x) == ~Falsy(x)

\* a ?? b
Coalesce(a, b) == IF a \in {Null, Undef} THEN b ELSE a

\* Array.prototype.find as the index of the first element satisfying P, 0 if none.
FindIndex(s, P(_)) ==
  IF \E i \in 1..Len(s) : P(s[i])
  THEN CHOOSE i \in 1..Len(s) : P(s[i]) /\ \A j \in 1..(i - 1) : ~P(s[j])
  ELSE 0

\* Array.prototype.map
Map(s, F(_)) == [i \in 1..Len(s) |-> F(s[i])]

(***************************************************************************)
(* The manifest: name and ordered parameter names of every method.         *)
(***************************************************************************)
manifest ==
  <<
    [name |-> "runImport", params |-> <<"budgetName", "func">>],
    [name |-> "loadBudget", params |-> <<"budgetId">>],
    [name |-> "downloadBudget", params |-> <<"syncId", "options">>],
    [name |-> "getBudgets", params |-> <<>>],
    [name |-> "sync", params |-> <<>>],
    [name |-> "runBankSync", params |-> <<"args">>],
    [name |-> "batchBudgetUpdates", params |-> <<"func">>],
    [name |-> "aqlQuery", params |-> <<"query">>],
    [name |-> "getBudgetMonths", params |-> <<>>],
    [name |-> "getBudgetMonth", params |-> <<"month">>],
    [name |-> "setBudgetAmount", params |-> <<"month", "categoryId", "value">>],
    [name |-> "setBudgetCarryover", params |-> <<"month", "categoryId", "flag">>],
    [name |-> "addTransactions", params |-> <<"accountId", "transactions", "options">>],
    [name |-> "importTransactions", params |-> <<"accountId", "transactions", "opts">>],
    [name |-> "getTransactions", params |-> <<"accountId", "startDate", "endDate">>],
    [name |-> "updateTransaction", params |-> <<"id", "fields">>],
    [name |-> "deleteTransaction", params |-> <<"id">>],
    [name |-> "getAccounts", params |-> <<>>],
    [name |-> "createAccount", params |-> <<"account", "initialBalance">>],
    [name |-> "updateAccount", params |-> <<"id", "fields">>],
    [name |-> "closeAccount", params |-> <<"id", "transferAccountId", "transferCategoryId">>],
    [name |-> "reopenAccount", params |-> <<"id">>],
    [name |-> "deleteAccount", params |-> <<"id">>],
    [name |-> "getAccountBalance", params |-> <<"id", "cutoff">>],
    [name |-> "getCategoryGroups", params |-> <<>>],
    [name |-> "createCategoryGroup", params |-> <<"group">>],
    [name |-> "updateCategoryGroup", params |-> <<"id", "fields">>],
    [name |-> "deleteCategoryGroup", params |-> <<"id", "transferCategoryId">>],
    [name |-> "getCategories", params |-> <<>>],
    [name |-> "createCategory", params |-> <<"category">>],
    [name |-> "updateCategory", params |-> <<"id", "fields">>],
    [name |-> "deleteCategory", params |-> <<"id", "transferCategoryId">>],
    [name |-> "getCommonPayees", params |-> <<>>],
    [name |-> "getPayees", params |-> <<>>],
    [name |-> "createPayee", params |-> <<"payee">>],
    [name |-> "updatePayee", params |-> <<"id", "fields">>],
    [name |-> "deletePayee", params |-> <<"id">>],
    [name |-> "mergePayees", params |-> <<"targetId", "mergeIds">>],
    [name |-> "getRules", params |-> <<>>],
    [name |-> "getPayeeRules", params |-> <<"id">>],
    [name |-> "createRule", params |-> <<"rule">>],
    [name |-> "updateRule", params |-> <<"rule">>],
    [name |-> "deleteRule", params |-> <<"id">>],
    [name |-> "holdBudgetForNextMonth", params |-> <<"month", "amount">>],
    [name |-> "resetBudgetHold", params |-> <<"month">>],
    [name |-> "createSchedule", params |-> <<"schedule">>],
    [name |-> "updateSchedule", params |-> <<"id", "fields", "resetNextDate">>],
    [name |-> "deleteSchedule", params |-> <<"scheduleId">>],
    [name |-> "getSchedules", params |-> <<>>],
    [name |-> "getIDByName", params |-> <<"type", "name">>],
    [name |-> "getServerVersion", params |-> <<>>]
  >>

\* What getMethodByName returns for a name the manifest does not have (undefined).
NoMethod == [name |-> Undef, params |-> << >>]

\* manifest.find((m) => m.name === name)
getMethodByName(name) ==
  LET i == FindIndex(manifest, LAMBDA m : m.name = name)
  IN IF i = 0 THEN NoMethod ELSE manifest[i]

NO_BUDGET_REQUIRED == {"getBudgets", "loadBudget", "downloadBudget", "sync", "getServerVersion"}

LOADS_BUDGET == {"loadBudget", "downloadBudget"}

CALLBACK_METHODS == {"batchBudgetUpdates", "runImport"}

\* The functions the client module exports: typeof api[method] === "function".
ApiFunctions == {manifest[i].name : i \in 1..Len(manifest)}

(***************************************************************************)
(* Parameter bags: a JavaScript object as the sequence of its [k, v]       *)
(* entries in insertion order, keys distinct.                              *)
(***************************************************************************)
\* params[key]; undefined when the key is absent.
Get(bag, key) ==
  LET i == FindIndex(bag, LAMBDA e : e.k = key)
  IN IF i = 0 THEN Undef ELSE bag[i].v

\* Mutant: the values of the bag in its own key order.
buildArgsBagOrder(methodInfo, bag) == [i \in 1..Len(bag) |-> bag[i].v]

\* methodInfo.params.map((p) => params[p.name])
buildArgs(methodInfo, bag) == Map(methodInfo.params, LAMBDA name : Get(bag, name))

(***************************************************************************)
(* Budget listings of the underlying client.                               *)
(***************************************************************************)
Entity(id, name, groupId) == [id |-> id, name |-> name, groupId |-> groupId]

\* The local id a remote budget gets when it is downloaded.
DownloadedId(groupId) == IF groupId = "g1" THEN "b2" ELSE "b3"

\* Listings the client may hold when the server starts.
InitListings ==
  { \* a remote-only budget and an unrelated local one
    << Entity(Undef, "Home", "g1"), Entity("b3", "Work", Undef) >>,
    \* a local synced budget whose name is the sync id of a remote-only one
    << Entity("b1", "g1", "g7"), Entity(Undef, "Home", "g1") >> }

\* ACTUAL_BUDGET_ID of a deployment with that listing: the local budget "b1"
\* where there is one, unset otherwise.
DefaultBudget(listing) ==
  IF \E i \in 1..Len(listing) : listing[i].id = "b1" THEN "b1" ELSE Undef

LocalIds(listing) == {listing[i].id : i \in 1..Len(listing)} \ {Undef, Null}
GroupIds(listing) == {listing[i].groupId : i \in 1..Len(listing)} \ {Undef, Null}

\* Mutant: the match ignores the sync id.
FindMatchNoGroupId(listing, x) ==
  FindIndex(listing, LAMBDA b : b.id = x \/ b.name = x)

\* budgets.find((b) => b.id === x || b.name === x || b.groupId === x)
FindMatch(listing, x) ==
  FindIndex(listing, LAMBDA b : b.id = x \/ b.name = x \/ b.groupId = x)

\* updatedBudgets.find((b) => b.groupId === match.groupId && b.id)
FindDownloaded(listing, groupId) ==
  FindIndex(listing, LAMBDA b : b.groupId = groupId /\ Truthy(b.id))

\* The names (and local ids) the not-found message lists, in listing order.
Available(listing) == Map(listing, LAMBDA b : [name |-> b.name, id |-> b.id])

\* Effect of a resolved downloadBudget(groupId) on the client's listing: when
\* the file materialises, a local entry is listed next to the remote one.
Materialise(listing, groupId) ==
  IF FindDownloaded(listing, groupId) # 0 THEN listing
  ELSE LET i == FindIndex(listing, LAMBDA b : b.groupId = groupId)
       IN Append(listing, Entity(DownloadedId(groupId), listing[i].name, groupId))

(***************************************************************************)
(* Responses.                                                              *)
(***************************************************************************)
NoResp == [isError |-> FALSE, error |-> Undef, shape |-> "none", detail |-> <<>>]

\* { content: [...{error, ...}], isError: true }
ErrorPayload(shape, error, detail) ==
  [isError |-> TRUE, error |-> error, shape |-> shape, detail |-> detail]

\* { content: [...{success: true, ...}] }
SuccessPayload(shape) ==
  [isError |-> FALSE, error |-> Undef, shape |-> shape, detail |-> <<>>]

MsgUnknown == "Unknown method"
MsgCallback == "requires a callback function and cannot be called via MCP"
MsgNoBudgetIsLoaded == "No budget is loaded."
MsgNotAvailable == "is defined in manifest but not available in API"
MsgNoBudgetLoaded == "No budget loaded. Provide budget_id or call loadBudget first."
MsgNotFound == "Budget not found. Available:"
MsgDownloadFailed == "Failed to download budget. Try again."
MsgNoLocalId == "Budget has no local ID to load."
MsgNoServerURL == "ACTUAL_SERVER_URL environment variable is required"
MsgRejected == "rejected by the client"
MsgTableNotFound == "Table not found"

(***************************************************************************)
(* Tool inputs.                                                            *)
(***************************************************************************)
EmptyBag == << >>
Bag1(k, v) == << [k |-> k, v |-> v] >>

\* The (method, params) pairs call_api_method is invoked with.
CallSamples ==
  { <<"loadBudget", Bag1("budgetId", "b1")>>,
    <<"downloadBudget", Bag1("syncId", "g1")>>,
    <<"getAccounts", EmptyBag>>,
    <<"runImport", EmptyBag>>,
    <<"batchBudgetUpdates", Bag1("budgetId", "b1")>>,
    <<"frobnicate", Bag1("syncId", "g1")>> }

BudgetIdSamples == {Undef, "b1", "g1"}

NoArg ==
  [tool |-> "none", method |-> Undef, params |-> EmptyBag,
   budget_id |-> Undef, resolve_names |-> FALSE]

CallInputs ==
  {[tool |-> "call_api_method", method |-> c[1], params |-> c[2],
    budget_id |-> Undef, resolve_names |-> FALSE] : c \in CallSamples}

QueryInputs ==
  {[tool |-> "execute_aql_query", method |-> Undef, params |-> EmptyBag,
    budget_id |-> i, resolve_names |-> FALSE] : i \in BudgetIdSamples}

\* resolve_names stands for "format is dsl and resolve_names is set": the
\* case in which get_rules awaits the four name listings.
RulesInputs ==
  {[tool |-> "get_rules", method |-> Undef, params |-> EmptyBag,
    budget_id |-> c[1], resolve_names |-> c[2]] :
     c \in {<<Undef, TRUE>>}}

Inputs == CallInputs \cup QueryInputs \cup RulesInputs

GuardTools == {"execute_aql_query", "get_rules"}

\* A parameter bag of two and of three entries.
Bag2(k1, v1, k2, v2) == << [k |-> k1, v |-> v1], [k |-> k2, v |-> v2] >>
Bag3(k1, v1, k2, v2, k3, v3) ==
  << [k |-> k1, v |-> v1], [k |-> k2, v |-> v2], [k |-> k3, v |-> v3] >>

\* The (method, params) pairs the dynamic invoker is exercised with: methods
\* on and off the allow-list, identifiers and entity names, the same bag in
\* two key orders, a key the manifest does not declare.
InvokerSamples ==
  { <<"getBudgets", EmptyBag>>,
    <<"getAccounts", EmptyBag>>,
    <<"loadBudget", Bag1("budgetId", "b1")>>,
    <<"loadBudget", Bag1("budgetId", "Work")>>,
    <<"downloadBudget", Bag1("syncId", "g1")>>,
    <<"getTransactions", Bag2("accountId", "Checking", "endDate", "d2")>>,
    <<"getTransactions", Bag3("endDate", "d2", "memo", "x", "accountId", "Checking")>>,
    <<"runImport", EmptyBag>> }

InvokerInputs ==
  {[tool |-> "call_api_method", method |-> c[1], params |-> c[2],
    budget_id |-> Undef, resolve_names |-> FALSE] : c \in InvokerSamples}

\* Object.keys(aqlSchema.tables)
SchemaTables ==
  <<"transactions", "accounts", "categories", "payees", "schedules", "category_groups">>

\* get_aql_schema(params): the response it returns.
getAqlSchema(params) ==
  LET section == Coalesce(Get(params, "section"), "all")
      tableName == Get(params, "table")
      known == \E i \in 1..Len(SchemaTables) : SchemaTables[i] = tableName
  IN IF section \in {"all", "tables"} /\ Truthy(tableName) /\ ~known
       THEN [isError |-> FALSE, error |-> MsgTableNotFound, shape |-> "schema",
             detail |-> SchemaTables]
       ELSE SuccessPayload("schema")

\* list_api_methods(params): the response it returns.
listApiMethods(params) ==
  IF Truthy(Get(params, "summary_only")) THEN SuccessPayload("summary")
  ELSE SuccessPayload("methods")

\* The tools that touch neither the session nor the client.
StatelessInputs ==
  {[tool |-> c[1], method |-> Undef, params |-> c[2],
    budget_id |-> Undef, resolve_names |-> FALSE] :
     c \in { <<"list_api_methods", EmptyBag>>,
             <<"get_aql_schema", Bag1("section", "operators")>>,
             <<"get_aql_schema", Bag1("table", "accounts")>>,
             <<"get_aql_schema", Bag2("section", "tables", "table", "budgets")>> }}

\* One invocation of each tool that awaits the client.
SessionInputs ==
  {[tool |-> c[1], method |-> c[2], params |-> EmptyBag,
    budget_id |-> c[3], resolve_names |-> c[4]] :
     c \in { <<"call_api_method", "getAccounts", Undef, FALSE>>,
             <<"execute_aql_query", Undef, "g1", FALSE>>,
             <<"get_rules", Undef, Undef, TRUE>> }}

\* What the installed client lacks: nothing, or (another version of the
\* client) getAccounts.
UnexportedSamples == { {}, {"getAccounts"} }

(***************************************************************************)
(* State.                                                                  *)
(***************************************************************************)
VARIABLES
  serverURL,        \* process.env.ACTUAL_SERVER_URL
  envBudgetId,      \* process.env.ACTUAL_BUDGET_ID
  unexported,       \* the manifest methods the installed client does not export
  serving,          \* main: server.connect(transport) has resolved
  exitCode,         \* the argument of process.exit, NotExited while the process runs
  shutdownPc,       \* per signal: where its shutdown() handler stands
  initAtSignal,     \* history, per signal: initialized when the signal arrived
  initialized,      \* index.ts: let initialized
  budgetLoaded,     \* index.ts: let budgetLoaded
  currentBudgetId,  \* index.ts: let currentBudgetId
  apiBudgets,       \* the client's budget listing (what api.getBudgets() resolves to)
  apiLoaded,        \* the budget open in the client, Null when none
  pc,               \* per frame: the await it is suspended at
  arg,              \* per frame: the tool and its arguments
  budgets,          \* smartLoadBudget: const budgets (the first listing)
  match,            \* smartLoadBudget: const match
  updatedBudgets,   \* smartLoadBudget: const updatedBudgets (the second listing)
  result,           \* ensureBudgetLoaded: const result (what smartLoadBudget returns)
  resp,             \* per frame: the response returned to the caller
  calls,            \* per frame: the client calls it has made, in order
  snap0,            \* history: the session pair when the invocation started
  snap1,            \* history: the session pair when its ensureInitialized returned
  dirty,            \* history: another invocation changed the session pair meanwhile
  prevGuard,        \* history: identifier of the directly preceding successful guard call
  lastGuard,        \* history: identifier of the last successful guard call, if still current
  lastActivation,   \* history: the code that last assigned the session pair
  nStarted,         \* number of invocations started
  resolving         \* resolveParams, per frame: const resolved and the entry awaited

vars ==
  <<serverURL, envBudgetId, unexported, serving, exitCode, shutdownPc,
    initAtSignal, initialized, budgetLoaded, currentBudgetId,
    apiBudgets, apiLoaded, pc, arg, budgets, match, updatedBudgets, result,
    resp, calls, snap0, snap1, dirty, prevGuard, lastGuard, lastActivation,
    nStarted, resolving>>

env == <<serverURL, envBudgetId, unexported>>

\* The names the installed client exports as functions.
apiExports == ApiFunctions \ unexported
process == <<serving, exitCode, shutdownPc, initAtSignal>>
client == <<apiBudgets, apiLoaded>>
locals == <<budgets, match, updatedBudgets, result>>

Session == [budgetLoaded |-> budgetLoaded, currentBudgetId |-> currentBudgetId]

\* The session pair at process start.
NoSession == [budgetLoaded |-> FALSE, currentBudgetId |-> Null]

NoEntity == Entity(Undef, Undef, Undef)

\* A listing local that has not been assigned yet.
NoListing == << NoEntity >>

NoResult == [id |-> Undef, name |-> Undef]

\* A frame that is not inside resolveParams or resolveId.
NotResolving == [n |-> 0, resolved |-> << >>]

\* The exit code of a process that has not called process.exit.
NotExited == -1

\* process.on("SIGTERM", shutdown); process.on("SIGINT", shutdown)
Signals == {"SIGTERM", "SIGINT"}

\* The process after its modules are loaded, before any tool invocation;
\* listings: what the client may list, missing: the manifest methods the
\* installed client lacks, connected: main has connected the transport.
InitOn(listings, missing, connected) ==
  /\ serverURL \in {Undef, "http://localhost:5006"}
  /\ apiBudgets \in listings
  /\ envBudgetId = DefaultBudget(apiBudgets)
  /\ unexported = missing
  /\ serving = connected
  /\ exitCode = NotExited
  /\ shutdownPc = [sig \in Signals |-> "none"]
  /\ initAtSignal = [sig \in Signals |-> FALSE]
  /\ initialized = FALSE
  /\ budgetLoaded = FALSE
  /\ currentBudgetId = Null
  /\ apiLoaded = Null
  /\ pc = [p \in Procs |-> "idle"]
  /\ arg = [p \in Procs |-> NoArg]
  /\ budgets = [p \in Procs |-> NoListing]
  /\ match = [p \in Procs |-> NoEntity]
  /\ updatedBudgets = [p \in Procs |-> NoListing]
  /\ result = [p \in Procs |-> NoResult]
  /\ resp = [p \in Procs |-> NoResp]
  /\ calls = [p \in Procs |-> << >>]
  /\ snap0 = [p \in Procs |-> NoSession]
  /\ snap1 = [p \in Procs |-> NoSession]
  /\ dirty = [p \in Procs |-> FALSE]
  /\ prevGuard = [p \in Procs |-> Undef]
  /\ lastGuard = Undef
  /\ lastActivation = "none"
  /\ nStarted = 0
  /\ resolving = [p \in Procs |-> NotResolving]

InitWith(missing, connected) == InitOn(InitListings, missing, connected)

\* The transport is connected, the installed client exports every method of
\* the manifest.
Init == InitWith({}, TRUE)

(***************************************************************************)
(* Session state writes.                                                   *)
(***************************************************************************)
\* Mutant: only the identifier is assigned, the flag keeps its value.
setBudgetLoadedIdOnly(loaded, budgetId) ==
  [budgetLoaded |-> budgetLoaded,
   currentBudgetId |-> IF loaded THEN Coalesce(budgetId, Null) ELSE Null]

\* setBudgetLoaded(loaded, budgetId): the pair it leaves in the session.
setBudgetLoaded(loaded, budgetId) ==
  [budgetLoaded |-> loaded,
   currentBudgetId |-> IF loaded THEN Coalesce(budgetId, Null) ELSE Null]

(***************************************************************************)
(* Step helpers.                                                           *)
(***************************************************************************)
\* The handler of frame q is suspended at an await.
InFlight(q) == pc[q] \notin {"idle", "done", "escaped"}

Goto(p, label) == pc' = [pc EXCEPT ![p] = label] /\ UNCHANGED resp

Respond(p, r) == pc' = [pc EXCEPT ![p] = "done"] /\ resp' = [resp EXCEPT ![p] = r]

Log(p, name, args) == calls' = [calls EXCEPT ![p] = Append(@, <<name, args>>)]

\* Which catch block turns a throw into the error payload.
CatchShape(tool, stage) == IF tool = "call_api_method" THEN "call" ELSE stage

Throw(p, stage, msg, detail) ==
  Respond(p, ErrorPayload(CatchShape(arg[p].tool, stage), msg, detail))

\* Assignment of the session pair by invocation p; by names the assigning
\* code, guard the identifier of a guard call that just succeeded.
SetSession(p, s, by, guard) ==
  /\ budgetLoaded' = s.budgetLoaded
  /\ currentBudgetId' = s.currentBudgetId
  /\ lastActivation' = by
  /\ lastGuard' = guard
  /\ dirty' = [q \in Procs |->
                 IF q = p THEN dirty[p] /\ pc'[p] # "done"
                 ELSE dirty[q] \/ (InFlight(q) /\ s # Session)]

\* The history of frame p lasts as long as its handler: h with p's entry
\* reset to init once the handler has returned.
Kept(p, h, init) == [h EXCEPT ![p] = IF pc'[p] = "done" THEN init ELSE @]

KeepSession(p) ==
  /\ UNCHANGED <<budgetLoaded, currentBudgetId, lastActivation, lastGuard>>
  /\ dirty' = Kept(p, dirty, FALSE)

KeepFrame(p) ==
  /\ snap0' = Kept(p, snap0, NoSession)
  /\ snap1' = Kept(p, snap1, NoSession)
  /\ prevGuard' = Kept(p, prevGuard, Undef)
  /\ UNCHANGED nStarted

\* ensureInitialized returned to frame p: the session pair it returned with.
FrameAfterInit(p) ==
  /\ snap0' = Kept(p, snap0, NoSession)
  /\ snap1' = Kept(p, [snap1 EXCEPT ![p] = Session], NoSession)
  /\ prevGuard' = Kept(p, prevGuard, Undef)
  /\ UNCHANGED nStarted

\* Whether the client can resolve the call at all.
CanResolve(name, args) ==
  CASE name = "loadBudget" -> Len(args) > 0 /\ args[1] \in LocalIds(apiBudgets)
    [] name = "downloadBudget" -> Len(args) > 0 /\ args[1] \in GroupIds(apiBudgets)
    [] OTHER -> TRUE

\* The client after downloadBudget(groupId) resolved; mat: the file materialised.
ClientDownloaded(groupId, mat) ==
  /\ apiBudgets' = IF mat THEN Materialise(apiBudgets, groupId) ELSE apiBudgets
  /\ apiLoaded' =
       IF mat THEN apiBudgets'[FindDownloaded(apiBudgets', groupId)].id ELSE apiLoaded

LastCall(p) == calls[p][Len(calls[p])]

(***************************************************************************)
(* Decisions the handlers take between two awaits.                         *)
(***************************************************************************)
\* Mutant: the callback check is missing.
callPrecheckNoCallback(method) ==
  IF getMethodByName(method) = NoMethod THEN MsgUnknown ELSE Undef

\* call_api_method before its try block: the payload message it rejects with,
\* Undef when the call goes on.
callPrecheck(method) ==
  IF getMethodByName(method) = NoMethod THEN MsgUnknown
  ELSE IF method \in CALLBACK_METHODS THEN MsgCallback
  ELSE Undef

\* ensureInitialized up to its first await.
ensureInitializedEntry(inited, url) ==
  IF inited THEN "return"
  ELSE IF Falsy(url) THEN "throw"
  ELSE "init"

\* Mutant: the allow-list is missing, every method needs a loaded budget.
callGateNoAllowList(method, loaded) ==
  IF ~loaded THEN MsgNoBudgetIsLoaded
  ELSE IF method \notin apiExports THEN MsgNotAvailable
  ELSE Undef

\* call_api_method after ensureInitialized: the message it returns, Undef
\* when it goes on to invoke the method.
callGate(method, loaded) ==
  IF method \notin NO_BUDGET_REQUIRED /\ ~loaded THEN MsgNoBudgetIsLoaded
  ELSE IF method \notin apiExports THEN MsgNotAvailable
  ELSE Undef

\* Mutant: the comparison with currentBudgetId is missing.
ensureBudgetLoadedAlwaysLoads(budgetIdOrName, loaded, current) ==
  IF Falsy(budgetIdOrName) /\ loaded THEN "return"
  ELSE IF Falsy(budgetIdOrName) /\ ~loaded THEN "throw"
  ELSE "load"

\* Mutant: the no-identifier, nothing-loaded check is missing.
ensureBudgetLoadedNoThrow(budgetIdOrName, loaded, current) ==
  IF Falsy(budgetIdOrName) /\ loaded THEN "return"
  ELSE IF budgetIdOrName = current THEN "return"
  ELSE "load"

\* ensureBudgetLoaded after ensureInitialized.
ensureBudgetLoadedDecision(budgetIdOrName, loaded, current) ==
  IF Falsy(budgetIdOrName) /\ loaded THEN "return"
  ELSE IF Falsy(budgetIdOrName) /\ ~loaded THEN "throw"
  ELSE IF budgetIdOrName = current THEN "return"
  ELSE "load"

\* Mutant: every match that has a sync id is downloaded, local or not.
smartLoadAlwaysDownloads(listing, budgetIdOrName) ==
  LET i == FindMatch(listing, budgetIdOrName)
  IN IF i = 0 THEN [kind |-> "notfound", entity |-> NoEntity]
     ELSE IF Truthy(listing[i].groupId)
          THEN [kind |-> "download", entity |-> listing[i]]
     ELSE IF Falsy(listing[i].id) THEN [kind |-> "nolocal", entity |-> listing[i]]
     ELSE [kind |-> "load", entity |-> listing[i]]

\* smartLoadBudget after the first listing.
smartLoadAfterListing(listing, budgetIdOrName) ==
  LET i == FindMatch(listing, budgetIdOrName)
  IN IF i = 0 THEN [kind |-> "notfound", entity |-> NoEntity]
     ELSE IF Truthy(listing[i].groupId) /\ Falsy(listing[i].id)
          THEN [kind |-> "download", entity |-> listing[i]]
     ELSE IF Falsy(listing[i].id) THEN [kind |-> "nolocal", entity |-> listing[i]]
     ELSE [kind |-> "load", entity |-> listing[i]]

\* smartLoadBudget after the second listing.
smartLoadAfterDownload(listing, groupId) ==
  LET i == FindDownloaded(listing, groupId)
  IN IF i = 0 THEN [kind |-> "failed", entity |-> NoEntity]
     ELSE [kind |-> "load", entity |-> listing[i]]

\* Mutant: the result carries the name where the local id belongs.
SmartLoadResultName(entity) == [id |-> entity.name, name |-> entity.name]

\* smartLoadBudget: the { id, name } it returns for the entity it loads.
SmartLoadResult(entity) == [id |-> entity.id, name |-> entity.name]

\* Mutant: downloadBudget records its sync id as the loaded budget.
loadedBudgetIdFromSyncId(method, bag) ==
  IF method = "loadBudget" THEN Coalesce(Get(bag, "budgetId"), Get(bag, "id"))
  ELSE Get(bag, "syncId")

\* call_api_method: the budget id it records after a LOADS_BUDGET method.
loadedBudgetId(method, bag) ==
  IF method = "loadBudget" THEN Coalesce(Get(bag, "budgetId"), Get(bag, "id"))
  ELSE Undef

(***************************************************************************)
(* The identifier resolver (id-resolver.ts).                               *)
(***************************************************************************)
HexDigits ==
  {"0", "1", "2", "3", "4", "5", "6", "7", "8", "9",
   "a", "b", "c", "d", "e", "f", "A", "B", "C", "D", "E", "F"}

\* /^[0-9a-f]{8}-[0-9a-f]{4}-[0-9a-f]{4}-[0-9a-f]{4}-[0-9a-f]{12}$/i.test(value)
isUUID(value) ==
  /\ Len(value) = 36
  /\ \A i \in 1..36 :
       IF i \in {9, 14, 19, 24} THEN SubSeq(value, i, i) = "-"
       ELSE SubSeq(value, i, i) \in HexDigits

\* SPECIAL_RESOLVERS[paramName]; Undef when the parameter has no entry.
SPECIAL_RESOLVERS(paramName) ==
  IF paramName = "syncId" THEN [getter |-> "getBudgets", idField |-> "groupId"]
  ELSE [getter |-> Undef, idField |-> Undef]

\* c.toUpperCase() of one character.
toUpperCase(c) ==
  CASE c = "a" -> "A" [] c = "b" -> "B" [] c = "c" -> "C" [] c = "d" -> "D"
    [] c = "e" -> "E" [] c = "f" -> "F" [] c = "g" -> "G" [] c = "h" -> "H"
    [] c = "i" -> "I" [] c = "j" -> "J" [] c = "k" -> "K" [] c = "l" -> "L"
    [] c = "m" -> "M" [] c = "n" -> "N" [] c = "o" -> "O" [] c = "p" -> "P"
    [] c = "q" -> "Q" [] c = "r" -> "R" [] c = "s" -> "S" [] c = "t" -> "T"
    [] c = "u" -> "U" [] c = "v" -> "V" [] c = "w" -> "W" [] c = "x" -> "X"
    [] c = "y" -> "Y" [] c = "z" -> "Z" [] OTHER -> c

\* key.endsWith("Id")
endsWithId(key) == Len(key) >= 2 /\ SubSeq(key, Len(key) - 1, Len(key)) = "Id"

\* deriveGetter(paramName): "get" + Entity + "s" for <entity>Id, else null.
deriveGetter(paramName) ==
  IF Len(paramName) >= 3 /\ endsWithId(paramName)
    THEN "get" \o toUpperCase(SubSeq(paramName, 1, 1))
               \o SubSeq(paramName, 2, Len(paramName) - 2) \o "s"
    ELSE Null

\* What the account listing of the client resolves to.
apiAccounts ==
  << Entity("u1", "Checking", Undef), Entity("u2", "Checking", Undef),
     Entity("u3", "Savings", Undef) >>

\* What await apiFn() resolves to for a listing function of the client.
ListingOf(getter) ==
  CASE getter = "getBudgets" -> apiBudgets
    [] getter = "getAccounts" -> apiAccounts
    [] getter = "getPayees" -> << Entity("p1", "Shop", Undef) >>
    [] getter = "getCategories" -> << Entity("c1", "Food", "cg1") >>
    [] OTHER -> << >>

\* e[idField]
Field(e, idField) == IF idField = "groupId" THEN e.groupId ELSE e.id

\* Array.prototype.join
RECURSIVE Join(_, _)
Join(seq, sep) ==
  IF seq = << >> THEN ""
  ELSE IF Len(seq) = 1 THEN seq[1]
  ELSE seq[1] \o sep \o Join(Tail(seq), sep)

\* Mutant: the identifier shape is not looked at.
resolveIdEntryNoPassThrough(paramName, value) ==
  LET getter == Coalesce(SPECIAL_RESOLVERS(paramName).getter, deriveGetter(paramName))
  IN IF getter \notin apiExports
       THEN [kind |-> "return", value |-> value, getter |-> Null]
     ELSE [kind |-> "await", value |-> Undef, getter |-> getter]

\* resolveId(paramName, value) up to its await: it returns the value, or it
\* awaits the listing function getter.
resolveIdEntry(paramName, value) ==
  LET getter == Coalesce(SPECIAL_RESOLVERS(paramName).getter, deriveGetter(paramName))
  IN IF isUUID(value) \/ getter \notin apiExports
       THEN [kind |-> "return", value |-> value, getter |-> Null]
     ELSE [kind |-> "await", value |-> Undef, getter |-> getter]

\* Mutant: the last matching entity is taken.
resolveIdAfterListingLast(paramName, value, entities) ==
  LET idField == Coalesce(SPECIAL_RESOLVERS(paramName).idField, "id")
      hits == {i \in 1..Len(entities) :
                 entities[i].id = value \/ entities[i].name = value
                   \/ Field(entities[i], idField) = value}
      available == Join(Map(entities, LAMBDA e : Coalesce(e.name, e.id)), ", ")
  IN IF hits = {}
       THEN [kind |-> "throw",
             value |-> paramName \o " \"" \o value \o "\" not found. Available: "
                         \o available]
     ELSE [kind |-> "return",
           value |-> Field(entities[CHOOSE i \in hits : \A j \in hits : j <= i], idField)]

\* resolveId(paramName, value) once the listing resolved to entities: the
\* identifier it returns, or the message of the Error it throws.
resolveIdAfterListing(paramName, value, entities) ==
  LET idField == Coalesce(SPECIAL_RESOLVERS(paramName).idField, "id")
      i == FindIndex(entities, LAMBDA e :
             e.id = value \/ e.name = value \/ Field(e, idField) = value)
      available == Join(Map(entities, LAMBDA e : Coalesce(e.name, e.id)), ", ")
  IN IF i = 0
       THEN [kind |-> "throw",
             value |-> paramName \o " \"" \o value \o "\" not found. Available: "
                         \o available]
     ELSE [kind |-> "return", value |-> Field(entities[i], idField)]

\* resolveId(paramName, value) with its await resolved by the client as it
\* stands: the value it returns, or that it throws, and the listing function
\* it called (Null when none).
resolveId(paramName, value) ==
  LET entry == resolveIdEntry(paramName, value)
      after == resolveIdAfterListing(paramName, value, ListingOf(entry.getter))
  IN IF entry.kind = "return" THEN entry
     ELSE [kind |-> after.kind, value |-> after.value, getter |-> entry.getter]

\* typeof value === "string"
IsString(value) == value \notin {Null, Undef}

\* resolveParams(params) from entry n on, resolved so far: the bag it
\* returns, or that a resolution threw.
RECURSIVE resolveParamsFrom(_, _, _)
resolveParamsFrom(bag, n, resolved) ==
  IF n > Len(bag) THEN [kind |-> "return", bag |-> resolved]
  ELSE IF IsString(bag[n].v) /\ endsWithId(bag[n].k)
    THEN LET r == resolveId(bag[n].k, bag[n].v)
         IN IF r.kind = "throw" THEN [kind |-> "throw", bag |-> resolved]
            ELSE resolveParamsFrom(bag, n + 1,
                   [resolved EXCEPT ![n] = [k |-> bag[n].k, v |-> r.value]])
  ELSE resolveParamsFrom(bag, n + 1, resolved)

resolveParams(bag) == resolveParamsFrom(bag, 1, bag)

(***************************************************************************)
(* The rules formatter (formatters/rule-dsl.ts).  A value of type unknown  *)
(* is a record [t, v] of its JavaScript type and its content: v is the     *)
(* string, number or boolean, the sequence of values of an array, the pair *)
(* <<num1, num2>> of a range, the sequence of [k, v] entries of any other  *)
(* object.  Options that were not given have given = FALSE.                *)
(***************************************************************************)
DSL_HEADER ==
  "# Rules DSL: [id] [stage] IF conditions THEN actions\n"
    \o "# Stages: PRE|RUN|POST  Ops: AND|OR\n"
    \o "# Refs: @payee:Name|@cat:Name|@acct:Name|@sched:Name\n"
    \o "# To update: call_api_method with getRule(id) for full JSON, then updateRule\n"

JsUndefined == [t |-> "undefined", v |-> Undef]

\* text.includes(c) for a single character c
Includes(text, c) == \E i \in 1..Len(text) : SubSeq(text, i, i) = c

\* text.replace(/"/g, '\\"')
RECURSIVE replaceQuotes(_)
replaceQuotes(text) ==
  IF text = "" THEN ""
  ELSE (IF SubSeq(text, 1, 1) = "\"" THEN "\\\"" ELSE SubSeq(text, 1, 1))
         \o replaceQuotes(SubSeq(text, 2, Len(text)))

\* JSON.stringify(value), for values without backslashes or control
\* characters in their strings.
RECURSIVE stringify(_)
stringify(value) ==
  CASE value.t = "string" -> "\"" \o replaceQuotes(value.v) \o "\""
    [] value.t = "number" -> ToString(value.v)
    [] value.t = "boolean" -> IF value.v THEN "true" ELSE "false"
    [] value.t = "array" ->
         "[" \o Join([i \in 1..Len(value.v) |-> stringify(value.v[i])], ",") \o "]"
    [] value.t = "range" ->
         "{\"num1\":" \o ToString(value.v[1]) \o ",\"num2\":" \o ToString(value.v[2]) \o "}"
    [] value.t = "object" ->
         LET own == SelectSeq(value.v, LAMBDA e : e.v.t # "undefined")
         IN "{" \o Join([i \in 1..Len(own) |->
                           "\"" \o own[i].k \o "\":" \o stringify(own[i].v)], ",") \o "}"
    [] OTHER -> "null"

\* String(value), `${value}`
StringOf(value) ==
  CASE value.t \in {"string"} -> value.v
    [] value.t = "number" -> ToString(value.v)
    [] value.t = "boolean" -> IF value.v THEN "true" ELSE "false"
    [] value.t = "array" ->
         Join([i \in 1..Len(value.v) |->
                 IF value.v[i].t \in {"string"} THEN value.v[i].v
                 ELSE IF value.v[i].t = "number" THEN ToString(value.v[i].v)
                 ELSE ""], ",")
    [] value.t \in {"range", "object"} -> "[object Object]"
    [] OTHER -> value.t

escapeName(name) ==
  IF \E c \in {" ", ":", ",", "(", ")"} : Includes(name, c)
    THEN "\"" \o replaceQuotes(name) \o "\""
  ELSE name

\* The @-reference of a string value of a resolvable field, Undef when the
\* field is not resolvable or the resolver has no name for the value.
NameReference(value, field, resolver) ==
  LET name == CASE field = "payee" -> Get(resolver.payee, value)
                [] field = "category" -> Get(resolver.category, value)
                [] field = "account" -> Get(resolver.account, value)
                [] OTHER -> Undef
      prefix == CASE field = "payee" -> "@payee:"
                  [] field = "category" -> "@cat:"
                  [] OTHER -> "@acct:"
  IN IF resolver.given /\ Truthy(name) THEN prefix \o escapeName(name) ELSE Undef

formatSingleValue(value, field, resolver) ==
  CASE value.t \in {"null", "undefined"} -> "null"
    [] value.t = "boolean" -> IF value.v THEN "true" ELSE "false"
    [] value.t = "number" -> ToString(value.v)
    [] value.t = "string" ->
         IF NameReference(value.v, field, resolver) # Undef
           THEN NameReference(value.v, field, resolver)
         ELSE IF \E c \in {" ", "\"", ",", "(", ")"} : Includes(value.v, c)
           THEN "\"" \o replaceQuotes(value.v) \o "\""
         ELSE value.v
    [] OTHER -> stringify(value)

formatValue(value, field, op, resolver) ==
  CASE value.t = "array" ->
         "(" \o Join([i \in 1..Len(value.v) |->
                        formatSingleValue(value.v[i], field, resolver)], ",") \o ")"
    [] value.t = "range" ->
         "(" \o ToString(value.v[1]) \o "," \o ToString(value.v[2]) \o ")"
    [] OTHER -> formatSingleValue(value, field, resolver)

\* Mutant: the brackets are written even when no flag is set.
formatConditionOptionsAlwaysBrackets(options) ==
  IF ~options.given THEN ""
  ELSE "[" \o Join((IF options.inflow THEN <<"inflow">> ELSE << >>)
                     \o (IF options.outflow THEN <<"outflow">> ELSE << >>)
                     \o (IF options.month THEN <<"month">> ELSE << >>)
                     \o (IF options.year THEN <<"year">> ELSE << >>), ",") \o "]"

formatConditionOptions(options) ==
  IF ~options.given THEN ""
  ELSE LET flags == (IF options.inflow THEN <<"inflow">> ELSE << >>)
                      \o (IF options.outflow THEN <<"outflow">> ELSE << >>)
                      \o (IF options.month THEN <<"month">> ELSE << >>)
                      \o (IF options.year THEN <<"year">> ELSE << >>)
       IN IF Len(flags) > 0 THEN "[" \o Join(flags, ",") \o "]" ELSE ""

formatCondition(cond, resolver) ==
  cond.field \o formatConditionOptions(cond.options) \o " " \o cond.op \o " "
    \o formatValue(cond.value, cond.field, cond.op, resolver)

formatConditions(conditions, conditionsOp, resolver) ==
  IF Len(conditions) = 0 THEN "(always)"
  ELSE Join([i \in 1..Len(conditions) |-> formatCondition(conditions[i], resolver)],
            IF conditionsOp = "and" THEN " AND " ELSE " OR ")

\* Mutant: the name resolver is not consulted.
formatActionValueNoResolver(value, field, resolver) ==
  CASE value.t \in {"null", "undefined"} -> "null"
    [] value.t = "boolean" -> IF value.v THEN "true" ELSE "false"
    [] value.t = "number" -> ToString(value.v)
    [] value.t = "string" ->
         IF \E c \in {" ", "\"", ","} : Includes(value.v, c)
           THEN "\"" \o replaceQuotes(value.v) \o "\""
         ELSE value.v
    [] OTHER -> stringify(value)

formatActionValue(value, field, resolver) ==
  CASE value.t \in {"null", "undefined"} -> "null"
    [] value.t = "boolean" -> IF value.v THEN "true" ELSE "false"
    [] value.t = "number" -> ToString(value.v)
    [] value.t = "string" ->
         IF NameReference(value.v, field, resolver) # Undef
           THEN NameReference(value.v, field, resolver)
         ELSE IF \E c \in {" ", "\"", ","} : Includes(value.v, c)
           THEN "\"" \o replaceQuotes(value.v) \o "\""
         ELSE value.v
    [] OTHER -> stringify(value)

\* The bracketed options of a set or set-split-amount action; names: the
\* string-valued options it looks at, in order.
ActionOptions(action, names) ==
  LET o == action.options
      part(n) == IF Truthy(o[n]) THEN << n \o ":" \o o[n] >> ELSE << >>
      optParts ==
        (IF Len(names) > 0 THEN part(names[1]) ELSE << >>)
          \o (IF Len(names) > 1 THEN part(names[2]) ELSE << >>)
          \o (IF o.splitIndex.t # "undefined"
                THEN << "splitIndex:" \o StringOf(o.splitIndex) >> ELSE << >>)
  IN IF o.given /\ Len(optParts) > 0 THEN "[" \o Join(optParts, ",") \o "]" ELSE ""

formatSetAction(action, resolver) ==
  LET field == IF Falsy(action.field) THEN "unknown" ELSE action.field
  IN "set(" \o field \o "=" \o formatActionValue(action.value, field, resolver) \o ")"
       \o ActionOptions(action, <<"template", "formula">>)

formatSetSplitAmountAction(action) ==
  "set-split-amount(" \o StringOf(action.value) \o ")"
    \o ActionOptions(action, <<"method">>)

formatLinkScheduleAction(action, resolver) ==
  LET hasId == action.value.t = "object"
                 /\ \E i \in 1..Len(action.value.v) : action.value.v[i].k = "id"
      scheduleId == IF hasId THEN Get(action.value.v, "id").v
                    ELSE StringOf(action.value)
      name == Get(resolver.schedule, scheduleId)
  IN IF resolver.given /\ Truthy(name)
       THEN "link-schedule(@sched:" \o escapeName(name) \o ")"
     ELSE "link-schedule(" \o scheduleId \o ")"

formatAction(action, resolver) ==
  CASE action.op = "set" -> formatSetAction(action, resolver)
    [] action.op = "set-split-amount" -> formatSetSplitAmountAction(action)
    [] action.op = "link-schedule" -> formatLinkScheduleAction(action, resolver)
    [] action.op = "prepend-notes" -> "prepend-notes(\"" \o StringOf(action.value) \o "\")"
    [] action.op = "append-notes" -> "append-notes(\"" \o StringOf(action.value) \o "\")"
    [] action.op = "delete-transaction" -> "delete-transaction"
    [] OTHER ->
         action.op \o "("
           \o stringify([t |-> "object",
                         v |-> << [k |-> "op", v |-> [t |-> "string", v |-> action.op]],
                                  [k |-> "field",
                                   v |-> IF action.field = Undef THEN JsUndefined
                                         ELSE [t |-> "string", v |-> action.field]],
                                  [k |-> "value", v |-> action.value] >>])
           \o ")"

formatActions(actions, resolver) ==
  IF Len(actions) = 0 THEN "(no action)"
  ELSE Join([i \in 1..Len(actions) |-> formatAction(actions[i], resolver)], "; ")

\* Mutant: a rule without a stage is written as POST.
formatStageNullPost(stage) ==
  IF stage = "pre" THEN "PRE" ELSE "POST"

formatStage(stage) ==
  IF stage = "pre" THEN "PRE"
  ELSE IF stage = "post" THEN "POST"
  ELSE "RUN"

formatRule(rule, resolver) ==
  rule.id \o " " \o formatStage(rule.stage)
    \o " IF " \o formatConditions(rule.conditions, rule.conditionsOp, resolver)
    \o " THEN " \o formatActions(rule.actions, resolver)

formatRulesToDsl(rules, resolver) ==
  IF Len(rules) = 0 THEN DSL_HEADER \o "\n# (no rules)"
  ELSE DSL_HEADER \o "\n"
         \o Join([i \in 1..Len(rules) |-> formatRule(rules[i], resolver)], "\n")

(***************************************************************************)
(* Actions.                                                                *)
(***************************************************************************)
\* A tool invocation arrives: the handler runs up to its first await, which
\* is inside ensureInitialized.
InvokeWith(p, inputs) ==
  /\ serving
  /\ pc[p] = "idle"
  /\ p = nStarted + 1
  /\ \E a \in inputs :
       /\ arg' = [arg EXCEPT ![p] = a]
       /\ LET rejected == IF a.tool = "call_api_method" THEN callPrecheck(a.method) ELSE Undef
              entry == ensureInitializedEntry(initialized, serverURL)
          IN IF rejected # Undef
               THEN /\ Respond(p, ErrorPayload("precheck", rejected, << >>))
                    /\ UNCHANGED calls
             ELSE IF entry = "throw"
               THEN /\ Respond(p, ErrorPayload(CatchShape(a.tool, "guard"), MsgNoServerURL, << >>))
                    /\ UNCHANGED calls
             ELSE IF entry = "init"
               THEN /\ Goto(p, "init_wait")
                    /\ Log(p, "init", << >>)
             ELSE /\ Goto(p, "ei_ret")
                  /\ UNCHANGED calls
  /\ snap0' = Kept(p, [snap0 EXCEPT ![p] = Session], NoSession)
  /\ snap1' = Kept(p, [snap1 EXCEPT ![p] = Session], NoSession)
  /\ dirty' = [dirty EXCEPT ![p] = FALSE]
  /\ prevGuard' = Kept(p, [prevGuard EXCEPT ![p] =
                     IF \A q \in Procs \ {p} : ~InFlight(q) THEN lastGuard ELSE Undef],
                     Undef)
  /\ lastGuard' = Undef
  /\ nStarted' = nStarted + 1
  /\ UNCHANGED <<env, resolving, process, initialized, budgetLoaded, currentBudgetId, client, locals,
                 lastActivation>>

Invoke(p) == InvokeWith(p, Inputs)

\* list_api_methods or get_aql_schema is invoked: the handler has no await
\* and returns its response at once.
InvokeStateless(p) ==
  /\ serving
  /\ pc[p] = "idle"
  /\ p = nStarted + 1
  /\ \E a \in StatelessInputs :
       /\ arg' = [arg EXCEPT ![p] = a]
       /\ Respond(p, IF a.tool = "get_aql_schema" THEN getAqlSchema(a.params)
                     ELSE listApiMethods(a.params))
  /\ lastGuard' = Undef
  /\ nStarted' = nStarted + 1
  /\ UNCHANGED <<env, resolving, process, initialized, budgetLoaded, currentBudgetId, client, locals,
                 calls, snap0, snap1, dirty, prevGuard, lastActivation>>

\* await api.init(initConfig) resolved: ensureInitialized sets the flag and
\* starts the auto-load when ACTUAL_BUDGET_ID is set.
InitResolved(p) ==
  /\ pc[p] = "init_wait"
  /\ initialized' = TRUE
  /\ IF Truthy(envBudgetId)
       THEN Goto(p, "autoload_wait") /\ Log(p, "loadBudget", <<envBudgetId>>)
       ELSE Goto(p, "ei_ret") /\ UNCHANGED calls
  /\ KeepSession(p)
  /\ UNCHANGED <<env, resolving, process, client, arg, locals>>
  /\ KeepFrame(p)

\* await api.loadBudget(budgetId) of the auto-load resolved.
AutoLoadResolved(p) ==
  /\ pc[p] = "autoload_wait"
  /\ CanResolve("loadBudget", LastCall(p)[2])
  /\ apiLoaded' = LastCall(p)[2][1]
  /\ Goto(p, "ei_ret")
  /\ SetSession(p, [budgetLoaded |-> TRUE, currentBudgetId |-> envBudgetId],
                "ensureInitialized", Undef)
  /\ UNCHANGED <<env, resolving, process, initialized, apiBudgets, arg, locals, calls>>
  /\ KeepFrame(p)

\* call_api_method resumes after await ensureInitialized().
CallAfterInit(p) ==
  /\ pc[p] = "ei_ret"
  /\ arg[p].tool = "call_api_method"
  /\ LET msg == callGate(arg[p].method, budgetLoaded)
     IN IF msg # Undef
          THEN Respond(p, ErrorPayload("gate", msg, << >>)) /\ UNCHANGED calls
          ELSE /\ Goto(p, "fn_wait")
               /\ Log(p, arg[p].method,
                      buildArgs(getMethodByName(arg[p].method), arg[p].params))
  /\ KeepSession(p)
  /\ FrameAfterInit(p)
  /\ UNCHANGED <<env, resolving, process, initialized, client, arg, locals>>

\* ensureBudgetLoaded resumes after await ensureInitialized().
GuardAfterInit(p) ==
  /\ pc[p] = "ei_ret"
  /\ arg[p].tool \in GuardTools
  /\ LET d == ensureBudgetLoadedDecision(arg[p].budget_id, budgetLoaded, currentBudgetId)
     IN /\ IF d = "return"
             THEN Goto(p, "guard_ret") /\ UNCHANGED calls
           ELSE IF d = "throw"
             THEN Throw(p, "guard", MsgNoBudgetLoaded, << >>) /\ UNCHANGED calls
           ELSE Goto(p, "list1_wait") /\ Log(p, "getBudgets", << >>)
        /\ lastGuard' = IF d = "return" /\ Truthy(arg[p].budget_id)
                          THEN arg[p].budget_id ELSE lastGuard
  /\ UNCHANGED <<budgetLoaded, currentBudgetId, lastActivation>>
  /\ dirty' = Kept(p, dirty, FALSE)
  /\ FrameAfterInit(p)
  /\ UNCHANGED <<env, resolving, process, initialized, client, arg, locals>>

\* smartLoadBudget: the first await api.getBudgets() resolved.
Listing1Resolved(p) ==
  /\ pc[p] = "list1_wait"
  /\ budgets' = [budgets EXCEPT ![p] = apiBudgets]
  /\ LET r == smartLoadAfterListing(apiBudgets, arg[p].budget_id)
     IN /\ match' = [match EXCEPT ![p] = r.entity]
        /\ IF r.kind = "notfound"
             THEN /\ Throw(p, "guard", MsgNotFound, Available(apiBudgets))
                  /\ UNCHANGED <<calls, result>>
           ELSE IF r.kind = "download"
             THEN /\ Goto(p, "download_wait")
                  /\ Log(p, "downloadBudget", <<r.entity.groupId>>)
                  /\ UNCHANGED result
           ELSE IF r.kind = "nolocal"
             THEN /\ Throw(p, "guard", MsgNoLocalId, << >>)
                  /\ UNCHANGED <<calls, result>>
           ELSE /\ Goto(p, "load_wait")
                /\ Log(p, "loadBudget", <<r.entity.id>>)
                /\ result' = [result EXCEPT ![p] = SmartLoadResult(r.entity)]
  /\ KeepSession(p)
  /\ UNCHANGED <<env, resolving, process, initialized, client, arg, updatedBudgets>>
  /\ KeepFrame(p)

\* smartLoadBudget: await api.downloadBudget(match.groupId) resolved.
DownloadResolved(p) ==
  /\ pc[p] = "download_wait"
  /\ CanResolve("downloadBudget", LastCall(p)[2])
  /\ \E mat \in BOOLEAN : ClientDownloaded(LastCall(p)[2][1], mat)
  /\ Goto(p, "list2_wait")
  /\ Log(p, "getBudgets", << >>)
  /\ KeepSession(p)
  /\ UNCHANGED <<env, resolving, process, initialized, arg, locals>>
  /\ KeepFrame(p)

\* smartLoadBudget: the second await api.getBudgets() resolved.
Listing2Resolved(p) ==
  /\ pc[p] = "list2_wait"
  /\ updatedBudgets' = [updatedBudgets EXCEPT ![p] = apiBudgets]
  /\ LET r == smartLoadAfterDownload(apiBudgets, match[p].groupId)
     IN IF r.kind = "failed"
          THEN /\ Throw(p, "guard", MsgDownloadFailed, << >>)
               /\ UNCHANGED <<calls, result>>
          ELSE /\ Goto(p, "load_wait")
               /\ Log(p, "loadBudget", <<r.entity.id>>)
               /\ result' = [result EXCEPT ![p] = SmartLoadResult(r.entity)]
  /\ KeepSession(p)
  /\ UNCHANGED <<env, resolving, process, initialized, client, arg, budgets, match>>
  /\ KeepFrame(p)

\* smartLoadBudget: await api.loadBudget(id) resolved; it returns {id, name}.
LoadResolved(p) ==
  /\ pc[p] = "load_wait"
  /\ CanResolve("loadBudget", LastCall(p)[2])
  /\ apiLoaded' = LastCall(p)[2][1]
  /\ Goto(p, "smart_ret")
  /\ KeepSession(p)
  /\ UNCHANGED <<env, resolving, process, initialized, apiBudgets, arg, locals, calls>>
  /\ KeepFrame(p)

\* ensureBudgetLoaded resumes after await smartLoadBudget():
\* setBudgetLoaded(true, result.id).
GuardSet(p) ==
  /\ pc[p] = "smart_ret"
  /\ Goto(p, "guard_ret")
  /\ SetSession(p, setBudgetLoaded(TRUE, result[p].id), "ensureBudgetLoaded",
                arg[p].budget_id)
  /\ UNCHANGED <<env, resolving, process, initialized, client, arg, locals, calls>>
  /\ KeepFrame(p)

\* execute_aql_query / get_rules resume after await ensureBudgetLoaded().
GuardReturned(p) ==
  /\ pc[p] = "guard_ret"
  /\ IF arg[p].tool = "execute_aql_query"
       THEN Goto(p, "query_wait") /\ Log(p, "aqlQuery", << >>)
       ELSE Goto(p, "rules_wait") /\ Log(p, "getRules", << >>)
  /\ KeepSession(p)
  /\ UNCHANGED <<env, resolving, process, initialized, client, arg, locals>>
  /\ KeepFrame(p)

\* execute_aql_query: await api.aqlQuery(query) resolved.
QueryResolved(p) ==
  /\ pc[p] = "query_wait"
  /\ Respond(p, SuccessPayload("data"))
  /\ KeepSession(p)
  /\ UNCHANGED <<env, resolving, process, initialized, client, arg, locals, calls>>
  /\ KeepFrame(p)

\* get_rules: await api.getRules() resolved.
RulesResolved(p) ==
  /\ pc[p] = "rules_wait"
  /\ IF arg[p].resolve_names
       THEN /\ Goto(p, "names_wait")
            /\ calls' = [calls EXCEPT ![p] =
                 @ \o << <<"getPayees", << >> >>, <<"getCategories", << >> >>,
                         <<"getAccounts", << >> >>, <<"getSchedules", << >> >> >>]
       ELSE Respond(p, SuccessPayload("rules")) /\ UNCHANGED calls
  /\ KeepSession(p)
  /\ UNCHANGED <<env, resolving, process, initialized, client, arg, locals>>
  /\ KeepFrame(p)

\* get_rules: await Promise.all([...]) resolved.
NamesResolved(p) ==
  /\ pc[p] = "names_wait"
  /\ Respond(p, SuccessPayload("rules"))
  /\ KeepSession(p)
  /\ UNCHANGED <<env, resolving, process, initialized, client, arg, locals, calls>>
  /\ KeepFrame(p)

\* call_api_method: await fn(...args) resolved.
FnResolved(p) ==
  /\ pc[p] = "fn_wait"
  /\ Respond(p, SuccessPayload("result"))
  /\ LET method == arg[p].method
         args == LastCall(p)[2]
     IN /\ CanResolve(method, args)
        /\ IF method = "loadBudget"
             THEN apiLoaded' = args[1] /\ UNCHANGED apiBudgets
           ELSE IF method = "downloadBudget"
             THEN \E mat \in BOOLEAN : ClientDownloaded(args[1], mat)
           ELSE UNCHANGED client
        /\ IF method \in LOADS_BUDGET
             THEN SetSession(p, setBudgetLoaded(TRUE, loadedBudgetId(method, arg[p].params)),
                             method, Undef)
             ELSE KeepSession(p)
  /\ UNCHANGED <<env, resolving, process, initialized, arg, locals, calls>>
  /\ KeepFrame(p)

Waiting ==
  {"init_wait", "autoload_wait", "list1_wait", "download_wait", "list2_wait",
   "load_wait", "fn_wait", "query_wait", "rules_wait", "names_wait"}

\* Mutant: the session is marked loaded although the awaited load rejected.
ApiRejectedMarksLoaded(p) ==
  /\ pc[p] \in Waiting
  /\ Throw(p, IF pc[p] \in {"query_wait", "rules_wait", "names_wait"} THEN "body" ELSE "guard",
           MsgRejected, <<LastCall(p)[1]>>)
  /\ IF pc[p] \in {"load_wait", "fn_wait"}
       THEN SetSession(p, setBudgetLoaded(TRUE, "b1"), "rejected", Undef)
       ELSE KeepSession(p)
  /\ UNCHANGED <<env, resolving, process, initialized, client, arg, locals, calls>>
  /\ KeepFrame(p)

\* Mutant: a rejected call leaves the session unloaded.
ApiRejectedResetsSession(p) ==
  /\ pc[p] \in Waiting
  /\ Throw(p, IF pc[p] \in {"query_wait", "rules_wait", "names_wait"} THEN "body" ELSE "guard",
           MsgRejected, <<LastCall(p)[1]>>)
  /\ SetSession(p, setBudgetLoaded(FALSE, Undef), "rejected", Undef)
  /\ UNCHANGED <<env, resolving, process, initialized, client, arg, locals, calls>>
  /\ KeepFrame(p)

\* An awaited client call rejects: the throw reaches the handler's catch.
ApiRejected(p) ==
  /\ pc[p] \in Waiting
  /\ Throw(p, IF pc[p] \in {"query_wait", "rules_wait", "names_wait"} THEN "body" ELSE "guard",
           MsgRejected, <<LastCall(p)[1]>>)
  /\ KeepSession(p)
  /\ UNCHANGED <<env, resolving, process, initialized, client, arg, locals, calls>>
  /\ KeepFrame(p)

\* call_api_method: an awaited client call rejects with a value that
\* JSON.stringify cannot serialise (a cyclic or BigInt property): the catch
\* block throws while it builds its debug line, and the handler's promise
\* rejects without a response.
CatchThrows(p) ==
  /\ pc[p] \in Waiting
  /\ arg[p].tool = "call_api_method"
  /\ Goto(p, "escaped")
  /\ KeepSession(p)
  /\ UNCHANGED <<env, resolving, process, initialized, client, arg, locals, calls>>
  /\ KeepFrame(p)

\* The steps of frame p after its invocation: a continuation the event loop
\* runs, or an awaited client call that settles.
StepOf(p) ==
  \/ InitResolved(p) \/ AutoLoadResolved(p) \/ CallAfterInit(p) \/ GuardAfterInit(p)
  \/ Listing1Resolved(p) \/ DownloadResolved(p) \/ Listing2Resolved(p)
  \/ LoadResolved(p) \/ GuardSet(p) \/ GuardReturned(p) \/ QueryResolved(p)
  \/ RulesResolved(p) \/ NamesResolved(p) \/ FnResolved(p) \/ ApiRejected(p)
  \/ CatchThrows(p)

Next ==
  \E p \in Procs :
    \/ Invoke(p)
    \/ InitResolved(p)
    \/ AutoLoadResolved(p)
    \/ CallAfterInit(p)
    \/ GuardAfterInit(p)
    \/ Listing1Resolved(p)
    \/ DownloadResolved(p)
    \/ Listing2Resolved(p)
    \/ LoadResolved(p)
    \/ GuardSet(p)
    \/ GuardReturned(p)
    \/ QueryResolved(p)
    \/ RulesResolved(p)
    \/ NamesResolved(p)
    \/ FnResolved(p)
    \/ ApiRejected(p)

Spec == Init /\ [][Next]_vars

(***************************************************************************)
(* The dynamic invoker alone: call_api_method invocations, overlapping,    *)
(* against either version of the client.                                   *)
(***************************************************************************)
InitInvoker == \E missing \in UnexportedSamples : InitWith(missing, TRUE)

NextInvoker ==
  \E p \in Procs :
    \/ InvokeWith(p, InvokerInputs)
    \/ InitResolved(p)
    \/ AutoLoadResolved(p)
    \/ CallAfterInit(p)
    \/ FnResolved(p)
    \/ ApiRejected(p)

SpecInvoker == InitInvoker /\ [][NextInvoker]_vars

(***************************************************************************)
(* The five registered tools together.                                     *)
(***************************************************************************)
NextTools ==
  \E p \in Procs :
    \/ InvokeWith(p, SessionInputs)
    \/ InvokeStateless(p)
    \/ InitResolved(p)
    \/ AutoLoadResolved(p)
    \/ CallAfterInit(p)
    \/ GuardAfterInit(p)
    \/ Listing1Resolved(p)
    \/ DownloadResolved(p)
    \/ Listing2Resolved(p)
    \/ LoadResolved(p)
    \/ GuardSet(p)
    \/ GuardReturned(p)
    \/ QueryResolved(p)
    \/ RulesResolved(p)
    \/ NamesResolved(p)
    \/ FnResolved(p)
    \/ ApiRejected(p)
    \/ CatchThrows(p)

SpecTools == Init /\ [][NextTools]_vars

\* The event loop runs every ready continuation, and every awaited client
\* call eventually resolves or rejects.
FairTools == SpecTools /\ \A p \in Procs : WF_vars(StepOf(p))

(***************************************************************************)
(* The process: start-up, tool invocations, termination signals.           *)
(***************************************************************************)
tools ==
  <<initialized, budgetLoaded, currentBudgetId, client, pc, arg, locals, resp,
    calls, snap0, snap1, dirty, prevGuard, lastGuard, lastActivation, nStarted>>

\* main: await server.connect(transport) resolved; from now on the transport
\* delivers tool invocations to the handlers.
mainConnected ==
  /\ ~serving
  /\ serving' = TRUE
  /\ UNCHANGED <<env, resolving, exitCode, shutdownPc, initAtSignal, tools>>

\* main: server.connect rejected; main().catch logs and calls process.exit(1).
mainFailed ==
  /\ ~serving
  /\ exitCode' = 1
  /\ UNCHANGED <<env, resolving, serving, shutdownPc, initAtSignal, tools>>

\* Mutant: shutdown() exits without awaiting the client's shutdown.
shutdownExitsAtOnce(sig) ==
  /\ shutdownPc[sig] = "none"
  /\ initAtSignal' = [initAtSignal EXCEPT ![sig] = initialized]
  /\ shutdownPc' = [shutdownPc EXCEPT ![sig] = "exited"]
  /\ exitCode' = 0
  /\ UNCHANGED <<env, resolving, serving, tools>>

\* A termination signal arrives and shutdown() runs up to its await: with
\* the client initialized it starts api.shutdown(), otherwise it exits.
shutdown(sig) ==
  /\ shutdownPc[sig] = "none"
  /\ initAtSignal' = [initAtSignal EXCEPT ![sig] = initialized]
  /\ IF initialized
       THEN /\ shutdownPc' = [shutdownPc EXCEPT ![sig] = "shutdown_wait"]
            /\ UNCHANGED exitCode
       ELSE /\ shutdownPc' = [shutdownPc EXCEPT ![sig] = "exited"]
            /\ exitCode' = 0
  /\ UNCHANGED <<env, resolving, serving, tools>>

\* await api.shutdown() resolved: process.exit(0).
ShutdownResolved(sig) ==
  /\ shutdownPc[sig] = "shutdown_wait"
  /\ shutdownPc' = [shutdownPc EXCEPT ![sig] = "exited_after_shutdown"]
  /\ exitCode' = 0
  /\ UNCHANGED <<env, resolving, serving, initAtSignal, tools>>

\* await api.shutdown() rejected: shutdown() ends by the rejection, which the
\* unhandledRejection handler logs; the process goes on.
ShutdownRejected(sig) ==
  /\ shutdownPc[sig] = "shutdown_wait"
  /\ shutdownPc' = [shutdownPc EXCEPT ![sig] = "rejected"]
  /\ UNCHANGED <<env, resolving, serving, exitCode, initAtSignal, tools>>

\* The invocations the process is exercised with.
ProcessInputs ==
  {[tool |-> "call_api_method", method |-> "getBudgets", params |-> EmptyBag,
    budget_id |-> Undef, resolve_names |-> FALSE]}

\* Nothing runs once process.exit was called.
Running == exitCode = NotExited

NextProcess ==
  \/ Running /\ mainConnected
  \/ Running /\ mainFailed
  \/ \E sig \in Signals : Running /\ shutdown(sig)
  \/ \E sig \in Signals : Running /\ ShutdownResolved(sig)
  \/ \E sig \in Signals : Running /\ ShutdownRejected(sig)
  \/ \E p \in Procs : Running /\ InvokeWith(p, ProcessInputs)
  \/ \E p \in Procs : Running /\ InvokeStateless(p)
  \/ \E p \in Procs : Running /\ InitResolved(p)
  \/ \E p \in Procs : Running /\ AutoLoadResolved(p)
  \/ \E p \in Procs : Running /\ CallAfterInit(p)
  \/ \E p \in Procs : Running /\ FnResolved(p)
  \/ \E p \in Procs : Running /\ ApiRejected(p)

InitProcess == InitWith({}, FALSE)

SpecProcess == InitProcess /\ [][NextProcess]_vars

(***************************************************************************)
(* Overlapping activations of two budgets that both exist locally: only    *)
(* loadBudget changes what the client has open.                            *)
(***************************************************************************)
\* The guard and the dynamic invoker, each asked for either budget.
LoadInputs ==
  {[tool |-> "execute_aql_query", method |-> Undef, params |-> EmptyBag,
    budget_id |-> i, resolve_names |-> FALSE] : i \in {"b1", "Work"}}
    \cup {[tool |-> "call_api_method", method |-> "loadBudget",
           params |-> Bag1("budgetId", i), budget_id |-> Undef,
           resolve_names |-> FALSE] : i \in {"b1", "b3"}}

InitLoads ==
  InitOn({ << Entity("b1", "Home", "g1"), Entity("b3", "Work", Undef) >> }, {}, TRUE)

NextLoads ==
  \E p \in Procs :
    \/ InvokeWith(p, LoadInputs)
    \/ InitResolved(p)
    \/ AutoLoadResolved(p)
    \/ CallAfterInit(p)
    \/ GuardAfterInit(p)
    \/ Listing1Resolved(p)
    \/ LoadResolved(p)
    \/ GuardSet(p)
    \/ GuardReturned(p)
    \/ QueryResolved(p)
    \/ FnResolved(p)
    \/ ApiRejected(p)

SpecLoads == InitLoads /\ [][NextLoads]_vars

(***************************************************************************)
(* The identifier resolver on its own: resolveId and resolveParams are     *)
(* exported functions; each frame is one call of one of them.              *)
(***************************************************************************)
UuidLower == "0a1b2c3d-0000-4000-8000-00000000beef"
UuidUpper == "0A1B2C3D-0000-4000-8000-00000000BEEF"
NotQuiteUuid == "0a1b2c3d-0000-4000-8000-00000000beeg"

\* The (paramName, value) pairs resolveId is called with.
ResolveIdSamples ==
  { <<"accountId", "Checking">>, <<"accountId", "u3">>, <<"accountId", "Petty cash">>,
    <<"categoryId", "Food">>, <<"payeeId", "Shop">>,
    <<"syncId", "g1">>, <<"syncId", "Work">>, <<"syncId", "b1">>,
    <<"accountId", UuidLower>>, <<"syncId", UuidUpper>>, <<"note", UuidLower>>,
    <<"accountId", NotQuiteUuid>>, <<"note", "Checking">> }

\* The bags resolveParams is called with.
ResolveParamsSamples ==
  { Bag3("accountId", "Checking", "memo", "Shop", "payeeId", "Shop"),
    Bag3("payeeId", "Shop", "accountId", "Savings", "Id", "Shop"),
    Bag3("accountId", "Petty cash", "payeeId", "Shop", "amount", Null),
    Bag3("accountId", UuidLower, "payeeId", Null, "paid", "Checking"),
    Bag2("categoryId", "Food", "syncId", "g1"),
    EmptyBag }

\* What a call that returned v hands to its caller.
Returned(v) == [isError |-> FALSE, error |-> Undef, shape |-> "returned", detail |-> v]

\* What a call that threw an Error with this message hands to its caller.
Thrown(message) == ErrorPayload("thrown", message, << >>)

\* Mutant: the typeof test is missing.
RECURSIVE resolveParamsAnyValue(_, _, _)
resolveParamsAnyValue(bag, n, sofar) ==
  IF n > Len(bag) THEN [n |-> n, resolved |-> sofar, getter |-> Null]
  ELSE IF endsWithId(bag[n].k)
    THEN LET entry == resolveIdEntry(bag[n].k, bag[n].v)
         IN IF entry.kind = "return"
              THEN resolveParamsAnyValue(bag, n + 1,
                     [sofar EXCEPT ![n] = [k |-> bag[n].k, v |-> entry.value]])
            ELSE [n |-> n, resolved |-> sofar, getter |-> entry.getter]
  ELSE resolveParamsAnyValue(bag, n + 1, sofar)

\* The loop of resolveParams from entry n on, up to its next await: the entry
\* whose listing it awaits (beyond the bag when the loop is over), resolved
\* so far, and the listing function called.
RECURSIVE resolveParamsUntilAwait(_, _, _)
resolveParamsUntilAwait(bag, n, sofar) ==
  IF n > Len(bag) THEN [n |-> n, resolved |-> sofar, getter |-> Null]
  ELSE IF IsString(bag[n].v) /\ endsWithId(bag[n].k)
    THEN LET entry == resolveIdEntry(bag[n].k, bag[n].v)
         IN IF entry.kind = "return"
              THEN resolveParamsUntilAwait(bag, n + 1,
                     [sofar EXCEPT ![n] = [k |-> bag[n].k, v |-> entry.value]])
            ELSE [n |-> n, resolved |-> sofar, getter |-> entry.getter]
  ELSE resolveParamsUntilAwait(bag, n + 1, sofar)

\* The frame of a resolver call that ran up to an await, or returned.
ResolverStep(p, next, returned) ==
  IF next.getter = Null
    THEN /\ Respond(p, Returned(returned))
         /\ resolving' = [resolving EXCEPT ![p] = NotResolving]
         /\ UNCHANGED calls
  ELSE /\ Goto(p, "listing_wait")
       /\ Log(p, next.getter, << >>)
       /\ resolving' = [resolving EXCEPT ![p] = [n |-> next.n, resolved |-> next.resolved]]

ResolverFrame ==
  UNCHANGED <<env, process, initialized, budgetLoaded, currentBudgetId, client, locals,
              snap0, snap1, dirty, prevGuard, lastGuard, lastActivation>>

\* resolveId(paramName, value) is called and runs up to its await.
resolveIdCalled(p) ==
  /\ pc[p] = "idle"
  /\ p = nStarted + 1
  /\ \E c \in ResolveIdSamples :
       LET bag == Bag1(c[1], c[2])
           entry == resolveIdEntry(c[1], c[2])
       IN /\ arg' = [arg EXCEPT ![p] = [NoArg EXCEPT !.tool = "resolveId", !.params = bag]]
          /\ ResolverStep(p, [n |-> 1, resolved |-> bag, getter |-> entry.getter],
                          <<entry.value>>)
  /\ nStarted' = nStarted + 1
  /\ ResolverFrame

\* resolveParams(params) is called: it copies the bag and runs its loop up
\* to the first await.
resolveParamsCalled(p) ==
  /\ pc[p] = "idle"
  /\ p = nStarted + 1
  /\ \E bag \in ResolveParamsSamples :
       LET next == resolveParamsUntilAwait(bag, 1, bag)
       IN /\ arg' = [arg EXCEPT ![p] = [NoArg EXCEPT !.tool = "resolveParams", !.params = bag]]
          /\ ResolverStep(p, next, next.resolved)
  /\ nStarted' = nStarted + 1
  /\ ResolverFrame

\* The awaited listing resolves: resolveId finds its match and returns or
\* throws; resolveParams stores the result and goes on to its next await.
ListingResolved(p) ==
  /\ pc[p] = "listing_wait"
  /\ LET bag == arg[p].params
         n == resolving[p].n
         after == resolveIdAfterListing(bag[n].k, bag[n].v, ListingOf(LastCall(p)[1]))
         stored == [resolving[p].resolved EXCEPT ![n] = [k |-> bag[n].k, v |-> after.value]]
         next == resolveParamsUntilAwait(bag, n + 1, stored)
     IN IF after.kind = "throw"
          THEN /\ Respond(p, Thrown(after.value))
               /\ resolving' = [resolving EXCEPT ![p] = NotResolving]
               /\ UNCHANGED calls
        ELSE IF arg[p].tool = "resolveId"
          THEN ResolverStep(p, [next EXCEPT !.getter = Null], <<after.value>>)
        ELSE ResolverStep(p, next, next.resolved)
  /\ UNCHANGED <<arg, nStarted>>
  /\ ResolverFrame

\* The awaited listing rejects: the rejection leaves resolveId and
\* resolveParams.
ListingRejected(p) ==
  /\ pc[p] = "listing_wait"
  /\ Respond(p, Thrown(MsgRejected))
  /\ resolving' = [resolving EXCEPT ![p] = NotResolving]
  /\ UNCHANGED <<arg, calls, nStarted>>
  /\ ResolverFrame

NextResolver ==
  \E p \in Procs :
    \/ resolveIdCalled(p)
    \/ resolveParamsCalled(p)
    \/ ListingResolved(p)
    \/ ListingRejected(p)

SpecResolver == InitInvoker /\ [][NextResolver]_vars

(***************************************************************************)
(* The rules formatter on its own: each frame is one formatRulesToDsl      *)
(* call, as get_rules makes it, with or without a name resolver.           *)
(***************************************************************************)
\* The (rules, resolver) pairs formatRulesToDsl is called with.
FormatterInputs ==
  LET V(t, v) == [t |-> t, v |-> v]
      S(s) == V("string", s)
      N(n) == V("number", n)
      Flags(fs) == [given |-> TRUE, inflow |-> "inflow" \in fs, outflow |-> "outflow" \in fs,
                    month |-> "month" \in fs, year |-> "year" \in fs]
      NoFlags == [given |-> FALSE, inflow |-> FALSE, outflow |-> FALSE,
                  month |-> FALSE, year |-> FALSE]
      Cond(field, op, value, options) ==
        [field |-> field, op |-> op, value |-> value, options |-> options]
      NoOpts == [given |-> FALSE, template |-> Undef, formula |-> Undef,
                 method |-> Undef, splitIndex |-> JsUndefined]
      Act(op, field, value) ==
        [op |-> op, field |-> field, value |-> value, options |-> NoOpts]
      Rule(id, stage, conditionsOp, conditions, actions) ==
        [id |-> id, stage |-> stage, conditionsOp |-> conditionsOp,
         conditions |-> conditions, actions |-> actions]
      names ==
        [given |-> TRUE,
         payee |-> Bag3("p1", "Shop", "p2", "Corner Shop", "p3", ""),
         category |-> Bag3("c1", "Groceries", "c2", "Food: Fresh", "c3", "Say \"hi\""),
         account |-> Bag3("a1", "Checking", "a2", "Joint (old)", "a3", "Cash,Card"),
         schedule |-> Bag1("s1", "Rent")]
      none == [given |-> FALSE, payee |-> << >>, category |-> << >>,
               account |-> << >>, schedule |-> << >>]
      r1 == Rule("r1", Null, "and",
                 << Cond("amount", "gt", N(0), Flags({"inflow"})) >>,
                 << Act("set", "category", S("c1")) >>)
      r2 == Rule("r2", "pre", "or",
                 << Cond("payee", "is", S("p2"), NoFlags),
                    Cond("date", "is", S("2024-01"), Flags({"year", "month"})),
                    Cond("amount", "isbetween", V("range", <<1, 5>>),
                         Flags({"outflow", "inflow"})),
                    Cond("notes", "contains", S("a b"), Flags({})) >>,
                 << Act("set", "payee", S("p2")), Act("set", "account", S("a2")) >>)
      r3 == Rule("r3", "post", "and", << >>, << >>)
      r4 == Rule("r4", Null, "and",
                 << Cond("category", "oneOf", V("array", << S("c1"), S("c9"), S("c2") >>),
                         NoFlags),
                    Cond("cleared", "is", V("boolean", TRUE), NoFlags),
                    Cond("payee", "is", V("null", Null), NoFlags) >>,
                 << Act("set", "payee", S("p3")), Act("set", "payee", S("p9")),
                    Act("set", "category", S("c3")), Act("set", "account", S("a3")),
                    Act("set", "category", S("Petty cash")),
                    Act("set", "notes", S("c1")), Act("set", Undef, N(5)) >>)
      r5 == Rule("r5", "pre", "or",
                 << Cond("amount", "gt", N(100),
                         Flags({"inflow", "outflow", "month", "year"})) >>,
                 << [Act("set", "notes", S("x")) EXCEPT
                       !.options = [NoOpts EXCEPT !.given = TRUE, !.template = "{{payee}}"]],
                    [Act("set-split-amount", Undef, N(50)) EXCEPT
                       !.options = [NoOpts EXCEPT !.given = TRUE, !.method = "fixed-percent",
                                                  !.splitIndex = N(1)]],
                    Act("link-schedule", Undef, S("s1")),
                    Act("link-schedule", Undef, V("object", Bag1("id", S("s2")))),
                    Act("prepend-notes", Undef, S("pre ")),
                    Act("append-notes", Undef, N(7)),
                    Act("delete-transaction", Undef, JsUndefined),
                    Act("custom", Undef, S("x")) >>)
      lists == << << >>, <<r1>>, <<r2>>, <<r3>>, <<r4>>, <<r5>>,
                  <<r1, r2, r3>>, <<r3, r1>>, <<r4, r5>> >>
  IN [i \in 1..(2 * Len(lists)) |->
        IF i <= Len(lists) THEN Bag2("rules", lists[i], "resolver", names)
        ELSE Bag2("rules", lists[i - Len(lists)], "resolver", none)]

\* formatRulesToDsl(rules, resolver) is called and returns its text.
formatRulesToDslCalled(p) ==
  /\ pc[p] = "idle"
  /\ p = nStarted + 1
  /\ \E i \in 1..Len(FormatterInputs) :
       LET in == FormatterInputs[i]
       IN /\ arg' = [arg EXCEPT ![p] =
                       [NoArg EXCEPT !.tool = "formatRulesToDsl", !.params = in]]
          /\ Respond(p, Returned(<<formatRulesToDsl(Get(in, "rules"), Get(in, "resolver"))>>))
  /\ nStarted' = nStarted + 1
  /\ UNCHANGED <<calls, resolving>>
  /\ ResolverFrame

NextFormatter == \E p \in Procs : formatRulesToDslCalled(p)

SpecFormatter == Init /\ [][NextFormatter]_vars

(***************************************************************************)
(* Vocabulary of the properties.                                           *)
(***************************************************************************)
ManifestNames == {manifest[i].name : i \in 1..Len(manifest)}

GetBudgetsCall == <<"getBudgets", << >> >>

\* The names of the calls of a log, in order.
CallNames(log) == [i \in 1..Len(log) |-> log[i][1]]

\* How many calls of a log go to the named client function.
CountCalls(log, name) == Cardinality({i \in 1..Len(log) : log[i][1] = name})

\* The calls invocation p made from smartLoadBudget's first listing on.
SmartCalls(p) ==
  IF \E i \in 1..Len(calls[p]) : calls[p][i][1] = "getBudgets"
  THEN LET first == CHOOSE i \in 1..Len(calls[p]) :
                      /\ calls[p][i][1] = "getBudgets"
                      /\ \A j \in 1..(i - 1) : calls[p][j][1] # "getBudgets"
       IN SubSeq(calls[p], first, Len(calls[p]))
  ELSE << >>

\* Entity e is one the input x names: by id, name or sync id.
Names(e, x) == e.id = x \/ e.name = x \/ e.groupId = x

\* The invocation's activation failed: ensureBudgetLoaded threw, or a
\* call_api_method invocation of loadBudget / downloadBudget returned an error.
ActivationFailed(p) ==
  /\ pc[p] = "done"
  /\ resp[p].isError
  /\ \/ arg[p].tool \in GuardTools /\ resp[p].shape = "guard"
     \/ /\ arg[p].tool = "call_api_method"
        /\ arg[p].method \in {"loadBudget", "downloadBudget"}
        /\ resp[p].shape \in {"call", "gate"}

(***************************************************************************)
(* C1.  budgetLoaded and currentBudgetId.                                  *)
(***************************************************************************)
\* C1 (as claimed): in every reachable state budgetLoaded = true implies
\* currentBudgetId is non-null and budgetLoaded = false implies it is null.
C1_LoadedIffCurrentId ==
  /\ budgetLoaded => currentBudgetId # Null
  /\ ~budgetLoaded => currentBudgetId = Null

\* C1 (amended): budgetLoaded = false implies currentBudgetId = null, and
\* budgetLoaded = true with currentBudgetId = null occurs only when the pair
\* was last assigned by a successful call_api_method of loadBudget or
\* downloadBudget (downloadBudget never supplies an identifier).
C1_LoadedPairAmended ==
  /\ ~budgetLoaded => currentBudgetId = Null
  /\ (budgetLoaded /\ currentBudgetId = Null) =>
       lastActivation \in {"loadBudget", "downloadBudget"}
  /\ lastActivation \in {"ensureInitialized", "ensureBudgetLoaded"} =>
       (budgetLoaded /\ currentBudgetId # Null)

\* C1 witness: a budget is loaded through downloadBudget, no identifier is known.
C1_Witness ==
  budgetLoaded /\ currentBudgetId = Null /\ lastActivation = "downloadBudget"

(***************************************************************************)
(* C2.  Idempotent activation.                                             *)
(***************************************************************************)
\* C2: of two consecutive successful ensureBudgetLoaded calls with the same
\* identifier, the second makes no client call (no listing, download or load)
\* and leaves the session pair as it found it.
C2_SecondGuardCallIsNoOp ==
  \A p \in Procs :
    ( /\ pc[p] = "guard_ret"
      /\ Truthy(arg[p].budget_id)
      /\ prevGuard[p] = arg[p].budget_id
      /\ ~dirty[p] )
    => (calls[p] = << >> /\ Session = snap0[p])

(***************************************************************************)
(* C3.  No partial activation.                                             *)
(***************************************************************************)
\* C3 (as claimed): when an activation fails, budgetLoaded and currentBudgetId
\* are exactly what they were before the invocation started.  Stated for the
\* invocations no other invocation interfered with, which the claim includes.
C3_FailureRestoresStart ==
  [][\A p \in Procs :
       (pc[p] # "done" /\ ActivationFailed(p)' /\ ~dirty[p]) =>
         Session' = snap0[p]]_vars

\* C3 (amended): when an activation fails and no other invocation assigned the
\* session pair meanwhile, budgetLoaded and currentBudgetId are exactly what
\* they were when the invocation's ensureInitialized returned (what they were
\* at its start when ensureInitialized itself failed).
C3_FailureKeepsSession ==
  [][\A p \in Procs :
       (pc[p] # "done" /\ ActivationFailed(p)' /\ ~dirty[p]) =>
         (Session' = snap1[p] /\ Session' = Session)]_vars

\* C3 witness: an invocation auto-loaded the default budget and then failed in
\* the smart loader after at least one listing.
C3_Witness ==
  \E p \in Procs :
    /\ ActivationFailed(p)
    /\ Len(calls[p]) >= 3
    /\ calls[p][1][1] = "init"
    /\ calls[p][2] = <<"loadBudget", <<envBudgetId>> >>
    /\ calls[p][3] = GetBudgetsCall
    /\ \A q \in Procs \ {p} : pc[q] = "idle"
    /\ Session = [budgetLoaded |-> TRUE, currentBudgetId |-> envBudgetId]

(***************************************************************************)
(* C4.  Initialization under overlapping invocations.                      *)
(***************************************************************************)
\* C4: api.init is never started while another api.init call is in flight,
\* nor after one has completed successfully.
C4_InitStartedOnce ==
  [][\A p \in Procs :
       (pc[p] # "init_wait" /\ pc'[p] = "init_wait") =>
         (~initialized /\ \A q \in Procs : pc[q] # "init_wait")]_vars

(***************************************************************************)
(* C5.  The guard's no-op cases.                                           *)
(***************************************************************************)
\* C5: with the client initialized, ensureBudgetLoaded returns without any
\* client call and without touching budgetLoaded / currentBudgetId when
\* (a) no identifier is given and a budget is loaded, or (b) the identifier
\* equals currentBudgetId.
C5_GuardNoOp ==
  [][\A p \in Procs :
       /\ (pc[p] = "idle" /\ pc'[p] # "idle" /\ initialized
             /\ arg'[p].tool \in GuardTools)
            => (pc'[p] = "ei_ret" /\ calls'[p] = << >>)
       /\ ( /\ pc[p] = "ei_ret" /\ pc'[p] # "ei_ret"
            /\ arg[p].tool \in GuardTools
            /\ initialized
            /\ \/ Falsy(arg[p].budget_id) /\ budgetLoaded
               \/ Truthy(arg[p].budget_id) /\ arg[p].budget_id = currentBudgetId )
            => ( /\ pc'[p] = "guard_ret"
                 /\ calls'[p] = calls[p]
                 /\ budgetLoaded' = budgetLoaded
                 /\ currentBudgetId' = currentBudgetId
                 /\ apiBudgets' = apiBudgets
                 /\ apiLoaded' = apiLoaded )]_vars

\* C5 witness: both cases have returned, one of them in an invocation that
\* found the client initialized and made no client call at all.
C5_Witness ==
  \E p, q \in Procs :
    /\ p # q
    /\ pc[p] = "guard_ret" /\ pc[q] = "guard_ret"
    /\ Falsy(arg[p].budget_id) /\ budgetLoaded
    /\ Truthy(arg[q].budget_id) /\ arg[q].budget_id = currentBudgetId
    /\ SmartCalls(p) = << >> /\ SmartCalls(q) = << >>
    /\ calls[p] = << >> \/ calls[q] = << >>

(***************************************************************************)
(* C6.  No identifier, nothing loaded.                                     *)
(***************************************************************************)
\* C6: ensureBudgetLoaded without identifier while no budget is loaded fails
\* with the 'No budget loaded' error, makes no client call and leaves the
\* session pair alone; the tool returns the error payload and never reaches
\* aqlQuery / getRules.
C6_NoBudgetLoadedError ==
  [][\A p \in Procs :
       ( /\ pc[p] = "ei_ret" /\ pc'[p] # "ei_ret"
         /\ arg[p].tool \in GuardTools
         /\ Falsy(arg[p].budget_id) /\ ~budgetLoaded )
       => ( /\ pc'[p] = "done"
            /\ resp'[p].isError
            /\ resp'[p].error = MsgNoBudgetLoaded
            /\ calls'[p] = calls[p]
            /\ \A i \in 1..Len(calls'[p]) :
                 calls'[p][i][1] \notin
                   {"getBudgets", "downloadBudget", "aqlQuery", "getRules"}
            /\ (envBudgetId = Undef =>
                  \A i \in 1..Len(calls'[p]) : calls'[p][i][1] = "init")
            /\ budgetLoaded' = budgetLoaded
            /\ currentBudgetId' = currentBudgetId )]_vars

\* C6 witness: with no default budget, an execute_aql_query and a get_rules
\* invocation have both been answered with the 'No budget loaded' error.
C6_Witness ==
  \E p, q \in Procs :
    /\ envBudgetId = Undef /\ initialized /\ ~budgetLoaded
    /\ pc[p] = "done" /\ arg[p].tool = "execute_aql_query"
    /\ pc[q] = "done" /\ arg[q].tool = "get_rules"
    /\ resp[p].isError /\ resp[p].error = MsgNoBudgetLoaded
    /\ resp[q].isError /\ resp[q].error = MsgNoBudgetLoaded

(***************************************************************************)
(* C7.  The guard records the resolved identifier.                         *)
(***************************************************************************)
\* C7: when ensureBudgetLoaded returns after a successful smart load,
\* budgetLoaded = true and currentBudgetId is the local id that was passed to
\* the client's loadBudget.
C7_GuardRecordsLoadedId ==
  [][\A p \in Procs :
       (pc[p] = "smart_ret" /\ pc'[p] # "smart_ret") =>
         ( /\ pc'[p] = "guard_ret"
           /\ budgetLoaded' = TRUE
           /\ LastCall(p)[1] = "loadBudget"
           /\ currentBudgetId' = LastCall(p)[2][1]
           /\ currentBudgetId' \in LocalIds(apiBudgets)
           /\ arg[p].budget_id # snap1[p].currentBudgetId )]_vars

\* C7 witness: the guard returned after loading a budget the caller named by
\* its name or sync id; the session holds the local id.
C7_Witness ==
  \E p \in Procs :
    /\ pc[p] = "guard_ret"
    /\ budgetLoaded
    /\ SmartCalls(p) # << >>
    /\ LastCall(p) = <<"loadBudget", <<currentBudgetId>> >>
    /\ arg[p].budget_id # currentBudgetId

(***************************************************************************)
(* C8.  The smart loader's client calls.                                   *)
(***************************************************************************)
\* C8: a successful smartLoadBudget calls loadBudget exactly once; when the
\* first listed entry the input names has a sync id and no local id, its calls
\* are getBudgets, downloadBudget(groupId), getBudgets, loadBudget(id) with id
\* the local id of an entry of the second listing with that sync id; otherwise
\* they are getBudgets, loadBudget(id of the match) and nothing is downloaded.
C8_SmartLoaderCalls ==
  \A p \in Procs :
    pc[p] = "smart_ret" =>
      LET sc == SmartCalls(p)
          b == budgets[p]
          u == updatedBudgets[p]
          x == arg[p].budget_id
      IN /\ \E i \in 1..Len(b) : Names(b[i], x)
         /\ CountCalls(sc, "loadBudget") = 1
         /\ LET i == CHOOSE k \in 1..Len(b) :
                       Names(b[k], x) /\ \A j \in 1..(k - 1) : ~Names(b[j], x)
            IN IF Truthy(b[i].groupId) /\ Falsy(b[i].id)
                 THEN /\ Len(sc) = 4
                      /\ sc[1] = GetBudgetsCall
                      /\ sc[2] = <<"downloadBudget", <<b[i].groupId>> >>
                      /\ sc[3] = GetBudgetsCall
                      /\ sc[4][1] = "loadBudget"
                      /\ Truthy(sc[4][2][1])
                      /\ \E j \in 1..Len(u) :
                           u[j].groupId = b[i].groupId /\ u[j].id = sc[4][2][1]
                 ELSE /\ sc = << GetBudgetsCall, <<"loadBudget", <<b[i].id>> >> >>
                      /\ CountCalls(sc, "downloadBudget") = 0

\* C8 witness: smartLoadBudget returned after the four-call remote-only path.
C8_Witness ==
  \E p \in Procs :
    /\ pc[p] = "smart_ret"
    /\ Len(SmartCalls(p)) = 4
    /\ CountCalls(SmartCalls(p), "downloadBudget") = 1

(***************************************************************************)
(* C9.  Not-found and download-failed never load.                          *)
(***************************************************************************)
\* C9: smartLoadBudget fails with not-found exactly when no entry of the first
\* listing has id, name or sync id equal to the input; the error names every
\* listed budget and nothing was downloaded or loaded.  It fails with the
\* download error exactly when the second listing has no entry with the same
\* sync id and a local id; nothing was loaded.
C9_FailuresNeverLoad ==
  \A p \in Procs :
    LET sc == SmartCalls(p)
        b == budgets[p]
        u == updatedBudgets[p]
        x == arg[p].budget_id
        NotFound == pc[p] = "done" /\ resp[p].isError /\ resp[p].error = MsgNotFound
        DownloadFailed ==
          pc[p] = "done" /\ resp[p].isError /\ resp[p].error = MsgDownloadFailed
        Downloaded(e) == e.groupId = match[p].groupId /\ Truthy(e.id)
    IN /\ NotFound =>
            /\ sc = << GetBudgetsCall >>
            /\ Len(resp[p].detail) = Len(b)
            /\ \A i \in 1..Len(b) : resp[p].detail[i].name = b[i].name
       /\ (b # NoListing) =>
            (NotFound <=> ~\E i \in 1..Len(b) : Names(b[i], x))
       /\ DownloadFailed =>
            /\ CallNames(sc) = <<"getBudgets", "downloadBudget", "getBudgets">>
            /\ CountCalls(sc, "loadBudget") = 0
       /\ (u # NoListing) =>
            (DownloadFailed <=> ~\E j \in 1..Len(u) : Downloaded(u[j]))

\* C9 witness: one invocation failed with not-found and another with the
\* download error.
C9_Witness ==
  \E p, q \in Procs :
    /\ pc[p] = "done" /\ resp[p].error = MsgNotFound
    /\ pc[q] = "done" /\ resp[q].error = MsgDownloadFailed

(***************************************************************************)
(* C10.  Rejections of call_api_method.                                    *)
(***************************************************************************)
\* C10: call_api_method answers a method name the manifest does not have with
\* the 'Unknown method' error and batchBudgetUpdates / runImport with the
\* callback error, whatever the params and the session state; the rejected
\* call makes no client call (no init either) and changes neither the session
\* nor the client.
C10_Rejections ==
  [][\A p \in Procs :
       (pc[p] = "idle" /\ pc'[p] # "idle" /\ arg'[p].tool = "call_api_method") =>
         LET m == arg'[p].method
             Unchanged ==
               /\ initialized' = initialized
               /\ budgetLoaded' = budgetLoaded
               /\ currentBudgetId' = currentBudgetId
               /\ apiBudgets' = apiBudgets
               /\ apiLoaded' = apiLoaded
         IN /\ (m \notin ManifestNames) =>
                 ( /\ pc'[p] = "done" /\ resp'[p].isError
                   /\ resp'[p].error = MsgUnknown
                   /\ calls'[p] = << >> /\ Unchanged )
            /\ (m \in {"batchBudgetUpdates", "runImport"}) =>
                 ( /\ pc'[p] = "done" /\ resp'[p].isError
                   /\ resp'[p].error = MsgCallback
                   /\ calls'[p] = << >> /\ Unchanged )]_vars

\* C10 witness: before any initialization, an unknown method and a callback
\* method have both been rejected.
C10_Witness ==
  \E p, q \in Procs :
    /\ ~initialized /\ ~budgetLoaded
    /\ pc[p] = "done" /\ resp[p].isError /\ resp[p].error = MsgUnknown
    /\ arg[p].method \notin ManifestNames
    /\ pc[q] = "done" /\ resp[q].isError /\ resp[q].error = MsgCallback
    /\ arg[q].method \in {"batchBudgetUpdates", "runImport"}
    /\ calls[p] = << >> /\ calls[q] = << >>

(***************************************************************************)
(* Vocabulary of the invoker's properties.                                 *)
(***************************************************************************)
\* Frame p takes the step in which call_api_method resumes after
\* ensureInitialized returned, for a manifest method that is no callback.
GateStep(p) ==
  /\ pc[p] = "ei_ret"
  /\ pc'[p] # "ei_ret"
  /\ arg[p].tool = "call_api_method"
  /\ arg[p].method \in ManifestNames \ {"batchBudgetUpdates", "runImport"}

\* The step invokes the method of frame p on the client.
InvokesMethod(p) ==
  /\ pc'[p] = "fn_wait"
  /\ Len(calls'[p]) = Len(calls[p]) + 1
  /\ calls'[p][Len(calls'[p])][1] = arg[p].method

\* The step answers frame p with the given error and invokes nothing.
RefusesWith(p, msg) ==
  /\ pc'[p] = "done"
  /\ resp'[p].isError
  /\ resp'[p].error = msg
  /\ calls'[p] = calls[p]

\* The gate of the claim: the method is on the allow-list or a budget is loaded.
Permitted(p) ==
  \/ arg[p].method \in {"getBudgets", "loadBudget", "downloadBudget", "sync",
                        "getServerVersion"}
  \/ budgetLoaded

\* C11 (as stated): after ensureInitialized returned, call_api_method invokes
\* a non-callback manifest method if and only if the method is on the
\* allow-list or a budget is loaded; otherwise it answers 'No budget is
\* loaded.' and invokes nothing.
C11_InvokesIffPermitted ==
  [][\A p \in Procs : GateStep(p) =>
        /\ InvokesMethod(p) <=> Permitted(p)
        /\ ~Permitted(p) => RefusesWith(p, "No budget is loaded.")]_vars

\* C11 (amended): the method is invoked if and only if it is permitted and
\* the client exports it as a function; a method that is not permitted is
\* answered 'No budget is loaded.', a permitted one the client does not
\* export 'is defined in manifest but not available in API', and in both
\* cases nothing is invoked.
C11_InvokesIffPermittedAndExported ==
  [][\A p \in Procs : GateStep(p) =>
        /\ InvokesMethod(p) <=> (Permitted(p) /\ arg[p].method \in apiExports)
        /\ ~Permitted(p) => RefusesWith(p, "No budget is loaded.")
        /\ (Permitted(p) /\ arg[p].method \notin apiExports) =>
             RefusesWith(p, "is defined in manifest but not available in API")]_vars

\* One invocation was refused for want of a budget while another, for a
\* method of the allow-list, went through with no budget loaded.
C11_Witness ==
  \E p, q \in Procs :
    /\ pc[p] = "done" /\ arg[p].method = "getAccounts"
    /\ resp[p].error = "No budget is loaded." /\ calls[p] = << <<"init", << >> >> >>
    /\ pc[q] = "fn_wait" /\ LastCall(q)[1] = "getBudgets"
    /\ ~budgetLoaded

\* Frame p takes the step in which call_api_method returns its success payload.
CallSucceeds(p) ==
  /\ arg[p].tool = "call_api_method"
  /\ pc[p] = "fn_wait"
  /\ pc'[p] = "done"
  /\ ~resp'[p].isError

\* C12: a successful call_api_method leaves the session loaded with
\* params.budgetId for loadBudget, loaded with currentBudgetId null for
\* downloadBudget, and leaves budgetLoaded and currentBudgetId as they were
\* for every other method.
C12_SuccessSessionEffect ==
  [][\A p \in Procs : CallSucceeds(p) =>
        LET bag == arg[p].params
        IN CASE arg[p].method = "loadBudget" ->
                  \A i \in 1..Len(bag) : bag[i].k = "budgetId" =>
                     budgetLoaded' /\ currentBudgetId' = bag[i].v
             [] arg[p].method = "downloadBudget" ->
                  budgetLoaded' /\ currentBudgetId' = Null
             [] OTHER -> UNCHANGED <<budgetLoaded, currentBudgetId>>]_vars

\* loadBudget {budgetId: "b1"} succeeded and downloadBudget succeeded after
\* it: the session is loaded and the identifier recorded for b1 is gone.
C12_Witness ==
  \E p, q \in Procs :
    /\ pc[p] = "done" /\ ~resp[p].isError /\ arg[p].method = "loadBudget"
    /\ Get(arg[p].params, "budgetId") = "b1"
    /\ pc[q] = "done" /\ ~resp[q].isError /\ arg[q].method = "downloadBudget"
    /\ budgetLoaded /\ currentBudgetId = Null

\* C13: call_api_method resolves identifier parameters before invoking: for
\* every string-valued parameter whose key ends in 'Id', the value passed to
\* the method is the identifier resolveParams computes from it, not the raw
\* name.
C13_IdParamsResolved ==
  [][\A p \in Procs : (GateStep(p) /\ InvokesMethod(p)) =>
        LET bag == arg[p].params
            declared == getMethodByName(arg[p].method).params
            passed == calls'[p][Len(calls'[p])][2]
            r == resolveParams(bag)
        IN /\ r.kind = "return"
           /\ \A i \in 1..Len(declared) :
                (endsWithId(declared[i]) /\ IsString(Get(bag, declared[i])))
                  => passed[i] = Get(r.bag, declared[i])]_vars

\* C14: the positional arguments have exactly one entry per declared
\* parameter, in manifest order, the i-th being the bag's value under the
\* i-th declared name or undefined when the key is absent; every key order
\* of the bag gives the same list, and the value of a key the manifest does
\* not declare is not passed.
C14_ArgsInManifestOrder ==
  [][\A p \in Procs : (GateStep(p) /\ InvokesMethod(p)) =>
        LET bag == arg[p].params
            methodInfo == getMethodByName(arg[p].method)
            declared == methodInfo.params
            passed == calls'[p][Len(calls'[p])][2]
            KeyOrders ==
              {[i \in 1..Len(bag) |-> bag[f[i]]] : f \in Permutations(1..Len(bag))}
        IN /\ Len(passed) = Len(declared)
           /\ \A i \in 1..Len(declared) :
                \/ \E j \in 1..Len(bag) : bag[j].k = declared[i] /\ passed[i] = bag[j].v
                \/ passed[i] = Undef /\ \A j \in 1..Len(bag) : bag[j].k # declared[i]
           /\ \A other \in KeyOrders : buildArgs(methodInfo, other) = passed
           /\ \A j \in 1..Len(bag) :
                (\A i \in 1..Len(declared) : bag[j].k # declared[i])
                  => \A i \in 1..Len(passed) : passed[i] # bag[j].v]_vars

\* getTransactions was invoked from two bags that list the same keys in
\* different orders, one with an undeclared key, with the same arguments:
\* the account, no start date, the end date.
C14_Witness ==
  \E p, q \in Procs :
    /\ pc[p] = "fn_wait" /\ pc[q] = "fn_wait"
    /\ arg[p].params = Bag2("accountId", "Checking", "endDate", "d2")
    /\ arg[q].params = Bag3("endDate", "d2", "memo", "x", "accountId", "Checking")
    /\ LastCall(p) = <<"getTransactions", <<"Checking", Undef, "d2">> >>
    /\ LastCall(q) = LastCall(p)

\* C15: every response of the five tools whose payload carries an error
\* field has the error indicator set.
C15_ErrorFieldImpliesIsError ==
  \A p \in Procs : (pc[p] = "done" /\ resp[p].error # Undef) => resp[p].isError

\* C16: every invocation of call_api_method, execute_aql_query and get_rules
\* eventually returns one response, a success or an error payload, provided
\* every client call it awaits settles; a rejection of an awaited call gives
\* an error payload and never an exception that escapes the handler.
C16_EveryInvocationResponds ==
  /\ \A p \in Procs : (pc[p] # "idle") ~> (pc[p] = "done" /\ resp[p] # NoResp)
  /\ [](\A p \in Procs :
          /\ pc[p] # "escaped"
          /\ (pc[p] = "done" /\ resp[p].shape \in {"call", "guard", "body"})
               => (resp[p].isError /\ resp[p].error # Undef))

\* C17: when ACTUAL_SERVER_URL is missing the process does not start
\* serving: it never reaches a state in which it has accepted and answered a
\* tool invocation, and api.init is never invoked.
C17_NoServingWithoutServerURL ==
  Falsy(serverURL) =>
    /\ \A p \in Procs : ~(pc[p] = "done" /\ resp[p] # NoResp)
    /\ \A p \in Procs : CountCalls(calls[p], "init") = 0

\* C18: with ACTUAL_BUDGET_ID configured, whenever ensureInitialized has
\* returned normally to an invocation budgetLoaded is true, and no tool call
\* without budget_id fails with 'No budget loaded'.
C18_DefaultBudgetLoadedAfterInit ==
  Truthy(envBudgetId) =>
    \A p \in Procs :
      /\ pc[p] = "ei_ret" => budgetLoaded
      /\ (pc[p] = "done" /\ arg[p].tool \in {"execute_aql_query", "get_rules"}
            /\ Falsy(arg[p].budget_id))
           => resp[p].error # "No budget loaded. Provide budget_id or call loadBudget first."

\* C20: initialized changes only from false to true, only in the step in
\* which api.init resolved, and is never reset; budgetLoaded never changes
\* from true back to false, whatever invocations fail or succeed.
C20_FlagsMonotonic ==
  [][/\ initialized => initialized'
     /\ (~initialized /\ initialized') =>
          \E p \in Procs :
            /\ pc[p] = "init_wait" /\ LastCall(p) = <<"init", << >> >>
            /\ pc'[p] \in {"autoload_wait", "ei_ret"}
     /\ budgetLoaded => budgetLoaded']_vars

\* An invocation failed while the client was initialized and a budget
\* loaded, and both flags still stand.
C20_Witness ==
  \E p \in Procs :
    /\ pc[p] = "done" /\ resp[p].isError
    /\ resp[p].error = MsgRejected /\ resp[p].detail # <<"init">>
    /\ initialized /\ budgetLoaded

\* The handler of the signal has invoked the client's shutdown.
ShutdownInvoked(sig) ==
  shutdownPc[sig] \in {"shutdown_wait", "rejected", "exited_after_shutdown"}

\* C19: after a termination signal the process exits only once the client's
\* shutdown has been invoked and has completed, whenever the client had been
\* initialized before the signal; a client that was never initialized is
\* not shut down before the exit.
C19_ExitAfterClientShutdown ==
  /\ (exitCode = 0 /\ \E sig \in Signals : shutdownPc[sig] # "none" /\ initAtSignal[sig])
       => \E sig \in Signals : shutdownPc[sig] = "exited_after_shutdown"
  /\ \A sig \in Signals :
       (shutdownPc[sig] # "none" /\ ~initAtSignal[sig])
         => /\ exitCode = 0
            /\ shutdownPc[sig] = "exited"
            /\ \A other \in Signals : ~ShutdownInvoked(other)

\* The process has exited after the client's shutdown completed, while a
\* tool invocation was waiting for the client and the other signal's
\* handler was still waiting for its own shutdown call.
C19_Witness ==
  /\ exitCode = 0
  /\ \E p \in Procs : pc[p] = "fn_wait"
  /\ \E sig, other \in Signals :
       /\ shutdownPc[sig] = "exited_after_shutdown" /\ initAtSignal[sig]
       /\ shutdownPc[other] = "shutdown_wait"

\* C21: for every value of the canonical identifier shape (hexadecimal
\* 8-4-4-4-12, in either letter case) resolveId returns the value unchanged
\* and has invoked no listing operation, whatever the parameter name.
C21_UuidPassesThrough ==
  \A p \in Procs :
    (arg[p].tool = "resolveId" /\ arg[p].params[1].v \in {UuidLower, UuidUpper})
      => /\ pc[p] = "done"
         /\ resp[p] = Returned(<<arg[p].params[1].v>>)
         /\ calls[p] = << >>

\* Identifiers in both letter cases went through resolveId under parameters
\* that have a listing operation.
C21_Witness ==
  \E p, q \in Procs :
    /\ arg[p].tool = "resolveId" /\ arg[p].params = Bag1("accountId", UuidLower)
    /\ arg[q].tool = "resolveId" /\ arg[q].params = Bag1("syncId", UuidUpper)
    /\ pc[p] = "done" /\ pc[q] = "done"

\* C22: for a value that is not identifier-shaped and a parameter whose
\* listing operation exists, resolveId returns the identifier field (id, or
\* groupId for syncId) of the first listed entity whose id, name or override
\* field equals the value; when no listed entity matches it fails with an
\* error naming the parameter, the value and every listed entity.  Resolving
\* accountId "Checking" yields "u1".
C22_FirstMatchOrNotFound ==
  \A p \in Procs :
    (/\ arg[p].tool = "resolveId" /\ pc[p] = "done"
     /\ calls[p] # << >> /\ resp[p].error # MsgRejected)
      => LET paramName == arg[p].params[1].k
             value == arg[p].params[1].v
             entities == ListingOf(calls[p][1][1])
             idField == IF paramName = "syncId" THEN "groupId" ELSE "id"
             hits == {i \in 1..Len(entities) :
                        \/ entities[i].id = value
                        \/ entities[i].name = value
                        \/ Field(entities[i], idField) = value}
             first == CHOOSE i \in hits : \A j \in hits : i <= j
             Contains(text, part) ==
               \E i \in 1..(Len(text) - Len(part) + 1) :
                 SubSeq(text, i, i + Len(part) - 1) = part
         IN /\ Len(calls[p]) = 1
            /\ IF hits = {}
                 THEN /\ resp[p].isError
                      /\ Contains(resp[p].error, paramName)
                      /\ Contains(resp[p].error, value)
                      /\ \A i \in 1..Len(entities) :
                           Contains(resp[p].error,
                                    Coalesce(entities[i].name, entities[i].id))
               ELSE resp[p] = Returned(<<Field(entities[first], idField)>>)
            /\ arg[p].params = Bag1("accountId", "Checking")
                 => resp[p] = Returned(<<"u1">>)

\* One call found the name among two entities that carry it, another found
\* nothing in the listing.
C22_Witness ==
  \E p, q \in Procs :
    /\ arg[p].tool = "resolveId" /\ arg[p].params = Bag1("accountId", "Checking")
    /\ resp[p] = Returned(<<"u1">>) /\ calls[p] = << <<"getAccounts", << >> >> >>
    /\ arg[q].tool = "resolveId" /\ arg[q].params = Bag1("accountId", "Petty cash")
    /\ resp[q] = Thrown("accountId \"Petty cash\" not found. Available: Checking, Checking, Savings")

\* C23: convention-based resolution covers the documented entity parameters:
\* for accountId, categoryId and payeeId the listing operations invoked are
\* getAccounts, getCategories and getPayees, and an entity name passed for
\* any of them comes back as the matching entity's id.
C23_ConventionCoversEntities ==
  \A p \in Procs :
    (/\ arg[p].tool = "resolveId" /\ pc[p] = "done"
     /\ unexported = {} /\ resp[p].error # MsgRejected)
      => \A c \in { <<"accountId", "Checking", "getAccounts", "u1">>,
                    <<"categoryId", "Food", "getCategories", "c1">>,
                    <<"payeeId", "Shop", "getPayees", "p1">> } :
           arg[p].params = Bag1(c[1], c[2])
             => /\ calls[p] = << <<c[3], << >> >> >>
                /\ resp[p] = Returned(<<c[4]>>)

\* C24: resolveParams returns a new bag with the same keys in which exactly
\* the string-valued entries whose key ends in "Id" are replaced by
\* resolveId(key, value), resolved one after another in insertion order,
\* every other entry being equal to the input; the input bag is not
\* modified, and when a single resolution fails the whole call fails.
C24_ResolveParamsEntryWise ==
  [][\A p \in Procs :
       LET bag == arg[p].params
           IsIdEntry(i) == IsString(bag[i].v) /\ endsWithId(bag[i].k)
           r(i) == resolveId(bag[i].k, bag[i].v)
           failing == {i \in 1..Len(bag) : IsIdEntry(i) /\ r(i).kind = "throw"}
           upto == IF failing = {} THEN Len(bag)
                   ELSE CHOOSE i \in failing : \A j \in failing : i <= j
           listed == SelectSeq([i \in 1..upto |-> i],
                               LAMBDA i : IsIdEntry(i) /\ r(i).getter # Null)
           returns == pc[p] # "done" /\ pc'[p] = "done"
       IN /\ pc[p] = "listing_wait" => arg'[p] = arg[p]
          /\ (arg'[p].tool = "resolveParams" /\ pc[p] = "idle" /\ returns)
               => \A i \in 1..Len(arg'[p].params) :
                    ~(IsString(arg'[p].params[i].v) /\ endsWithId(arg'[p].params[i].k)
                      /\ resolveId(arg'[p].params[i].k, arg'[p].params[i].v).getter # Null)
          /\ (arg[p].tool = "resolveParams" /\ pc[p] = "listing_wait" /\ returns
              /\ resp'[p].error # MsgRejected)
               => /\ resp'[p].isError <=> failing # {}
                  /\ calls'[p] = [j \in 1..Len(listed) |-> <<r(listed[j]).getter, << >> >>]
          /\ (arg'[p].tool = "resolveParams" /\ returns /\ ~resp'[p].isError)
               => LET in == arg'[p].params
                      out == resp'[p].detail
                  IN /\ Len(out) = Len(in)
                     /\ \A i \in 1..Len(in) :
                          /\ out[i].k = in[i].k
                          /\ out[i].v =
                               IF IsString(in[i].v) /\ endsWithId(in[i].k)
                                 THEN resolveId(in[i].k, in[i].v).value
                               ELSE in[i].v]_vars

\* One call resolved an account and a payee in that order and left the memo
\* alone; another failed on its first entry and never listed the payees.
C24_Witness ==
  \E p, q \in Procs :
    /\ arg[p].tool = "resolveParams" /\ pc[p] = "done"
    /\ arg[p].params = Bag3("accountId", "Checking", "memo", "Shop", "payeeId", "Shop")
    /\ resp[p] = Returned(Bag3("accountId", "u1", "memo", "Shop", "payeeId", "p1"))
    /\ calls[p] = << <<"getAccounts", << >> >>, <<"getPayees", << >> >> >>
    /\ arg[q].tool = "resolveParams" /\ pc[q] = "done"
    /\ arg[q].params = Bag3("accountId", "Petty cash", "payeeId", "Shop", "amount", Null)
    /\ resp[q].isError /\ resp[q].error # MsgRejected
    /\ calls[q] = << <<"getAccounts", << >> >> >>

\* C30: whenever resolveId returns normally its result is a defined string:
\* the input value itself or an identifier field the matched entity actually
\* has, for convention-derived parameters and for the syncId override
\* resolved against the budget listing, whichever of id, name or groupId
\* produced the match.
C30_ResultIsDefinedString ==
  \A p \in Procs :
    (arg[p].tool = "resolveId" /\ pc[p] = "done" /\ ~resp[p].isError)
      => IsString(resp[p].detail[1])

\* C25: formatRulesToDsl returns the fixed header followed by the
\* "# (no rules)" marker line for an empty rule list, and otherwise the
\* header followed by exactly one line per rule, in input order, each of the
\* form "<id> <STAGE> IF <conditions> THEN <actions>", STAGE being PRE for
\* stage 'pre', POST for 'post' and RUN for null.
C25_HeaderAndOneLinePerRule ==
  \A p \in Procs :
    (arg[p].tool = "formatRulesToDsl" /\ pc[p] = "done")
      => LET rules == Get(arg[p].params, "rules")
             resolver == Get(arg[p].params, "resolver")
             text == resp[p].detail[1]
             STAGE(rule) == CASE rule.stage = "pre" -> "PRE"
                              [] rule.stage = "post" -> "POST"
                              [] rule.stage = Null -> "RUN"
             line(rule) ==
               rule.id \o " " \o STAGE(rule) \o " IF "
                 \o formatConditions(rule.conditions, rule.conditionsOp, resolver)
                 \o " THEN " \o formatActions(rule.actions, resolver)
             lineBreaks == Cardinality({i \in 1..Len(text) : SubSeq(text, i, i) = "\n"})
             headerBreaks ==
               Cardinality({i \in 1..Len(DSL_HEADER) : SubSeq(DSL_HEADER, i, i) = "\n"})
         IN /\ SubSeq(text, 1, Len(DSL_HEADER)) = DSL_HEADER
            /\ IF Len(rules) = 0
                 THEN text = DSL_HEADER \o "\n" \o "# (no rules)"
               ELSE /\ text = DSL_HEADER \o "\n"
                                \o Join([i \in 1..Len(rules) |-> line(rules[i])], "\n")
                    /\ lineBreaks = headerBreaks + Len(rules)

\* Three rules, without a stage, pre and post, were formatted in one call, and
\* an empty list in another.
C25_Witness ==
  \E p, q \in Procs :
    /\ arg[p].tool = "formatRulesToDsl" /\ pc[p] = "done"
    /\ LET rules == Get(arg[p].params, "rules")
       IN /\ Len(rules) = 3
          /\ <<rules[1].stage, rules[2].stage, rules[3].stage>> = <<Null, "pre", "post">>
    /\ arg[q].tool = "formatRulesToDsl" /\ pc[q] = "done"
    /\ Get(arg[q].params, "rules") = << >>

\* C26: the conditions part of a rule line is the literal "(always)" for an
\* empty condition list; otherwise it is the conditions in input order, each
\* rendered "<field><[flags]> <op> <value>", joined by " AND " when
\* conditionsOp is 'and' and by " OR " otherwise, flags being the true options
\* among inflow, outflow, month, year in that order, comma-joined, with no
\* brackets at all when no flag is true.
C26_ConditionsPart ==
  \A p \in Procs :
    (arg[p].tool = "formatRulesToDsl" /\ pc[p] = "done"
     /\ Get(arg[p].params, "rules") # << >>)
      => LET rules == Get(arg[p].params, "rules")
             resolver == Get(arg[p].params, "resolver")
             flags(c) == SelectSeq(<<"inflow", "outflow", "month", "year">>,
                                   LAMBDA f : c.options.given /\ c.options[f])
             condition(c) ==
               c.field \o (IF flags(c) = << >> THEN ""
                           ELSE "[" \o Join(flags(c), ",") \o "]")
                 \o " " \o c.op \o " " \o formatValue(c.value, c.field, c.op, resolver)
             conditions(rule) ==
               IF rule.conditions = << >> THEN "(always)"
               ELSE Join([i \in 1..Len(rule.conditions) |-> condition(rule.conditions[i])],
                         IF rule.conditionsOp = "and" THEN " AND " ELSE " OR ")
             line(rule) ==
               rule.id \o " " \o formatStage(rule.stage) \o " IF " \o conditions(rule)
                 \o " THEN " \o formatActions(rule.actions, resolver)
         IN resp[p].detail[1] =
              DSL_HEADER \o "\n" \o Join([i \in 1..Len(rules) |-> line(rules[i])], "\n")

\* One call formatted a rule without conditions, one with four conditions
\* joined by OR (flags given out of order, and options without any flag), and
\* one with a single flagged condition.
C26_Witness ==
  \E p \in Procs :
    /\ arg[p].tool = "formatRulesToDsl" /\ pc[p] = "done"
    /\ LET rules == Get(arg[p].params, "rules")
       IN /\ Len(rules) = 3
          /\ rules[3].conditions = << >>
          /\ rules[2].conditionsOp = "or" /\ Len(rules[2].conditions) = 4
          /\ rules[2].conditions[4].options.given
          /\ ~rules[2].conditions[4].options.inflow
          /\ rules[2].conditions[2].options.month /\ rules[2].conditions[2].options.year
          /\ rules[1].conditionsOp = "and" /\ rules[1].conditions[1].options.inflow

\* C27, as stated: a 'set' action whose field is payee, category or account
\* and whose string value has a mapping in the name resolver renders as
\* set(<field>=@payee:Name), set(<field>=@cat:Name) or set(<field>=@acct:Name),
\* the name quoted exactly when it contains a space, colon, comma or
\* parenthesis; without a mapping the raw value is rendered.  The rule r1
\* formats to "r1 RUN IF amount[inflow] gt 0 THEN set(category=@cat:Groceries)".
C27_SetActionReference ==
  \A p \in Procs :
    (arg[p].tool = "formatRulesToDsl" /\ pc[p] = "done"
     /\ Get(arg[p].params, "rules") # << >>)
      => LET rules == Get(arg[p].params, "rules")
             resolver == Get(arg[p].params, "resolver")
             Named(a) == /\ a.op = "set" /\ a.field \in {"payee", "category", "account"}
                         /\ a.value.t = "string" /\ ~a.options.given
             name(a) == Get(resolver[a.field], a.value.v)
             prefix(a) == CASE a.field = "payee" -> "@payee:"
                            [] a.field = "category" -> "@cat:"
                            [] a.field = "account" -> "@acct:"
             quoted(n) == IF \E c \in {" ", ":", ",", "(", ")"} : Includes(n, c)
                            THEN "\"" \o replaceQuotes(n) \o "\"" ELSE n
             action(a) ==
               IF ~Named(a) THEN formatAction(a, resolver)
               ELSE IF resolver.given /\ name(a) # Undef
                 THEN "set(" \o a.field \o "=" \o prefix(a) \o quoted(name(a)) \o ")"
               ELSE "set(" \o a.field \o "=" \o a.value.v \o ")"
             line(rule) ==
               rule.id \o " " \o formatStage(rule.stage) \o " IF "
                 \o formatConditions(rule.conditions, rule.conditionsOp, resolver)
                 \o " THEN "
                 \o (IF rule.actions = << >> THEN "(no action)"
                     ELSE Join([i \in 1..Len(rule.actions) |-> action(rule.actions[i])], "; "))
         IN resp[p].detail[1] =
              DSL_HEADER \o "\n" \o Join([i \in 1..Len(rules) |-> line(rules[i])], "\n")

\* C27, amended: the reference is written when the resolver holds a
\* non-empty name for the value; otherwise the value itself is written,
\* double-quoted, with its double quotes escaped, when it contains a space,
\* a double quote or a comma.  The rule r1 formats to
\* "r1 RUN IF amount[inflow] gt 0 THEN set(category=@cat:Groceries)".
C27_SetActionReferenceOrQuotedValue ==
  \A p \in Procs :
    (arg[p].tool = "formatRulesToDsl" /\ pc[p] = "done"
     /\ Get(arg[p].params, "rules") # << >>)
      => LET rules == Get(arg[p].params, "rules")
             resolver == Get(arg[p].params, "resolver")
             Named(a) == /\ a.op = "set" /\ a.field \in {"payee", "category", "account"}
                         /\ a.value.t = "string" /\ ~a.options.given
             name(a) == Get(resolver[a.field], a.value.v)
             prefix(a) == CASE a.field = "payee" -> "@payee:"
                            [] a.field = "category" -> "@cat:"
                            [] a.field = "account" -> "@acct:"
             quoted(n, special) == IF \E c \in special : Includes(n, c)
                                     THEN "\"" \o replaceQuotes(n) \o "\"" ELSE n
             action(a) ==
               IF ~Named(a) THEN formatAction(a, resolver)
               ELSE IF resolver.given /\ name(a) \notin {Undef, ""}
                 THEN "set(" \o a.field \o "=" \o prefix(a)
                        \o quoted(name(a), {" ", ":", ",", "(", ")"}) \o ")"
               ELSE "set(" \o a.field \o "=" \o quoted(a.value.v, {" ", "\"", ","}) \o ")"
             line(rule) ==
               rule.id \o " " \o formatStage(rule.stage) \o " IF "
                 \o formatConditions(rule.conditions, rule.conditionsOp, resolver)
                 \o " THEN "
                 \o (IF rule.actions = << >> THEN "(no action)"
                     ELSE Join([i \in 1..Len(rule.actions) |-> action(rule.actions[i])], "; "))
         IN /\ resp[p].detail[1] =
                 DSL_HEADER \o "\n" \o Join([i \in 1..Len(rules) |-> line(rules[i])], "\n")
            /\ (resolver.given /\ Len(rules) = 1 /\ rules[1].id = "r1")
                 => resp[p].detail[1] = DSL_HEADER \o "\n"
                      \o "r1 RUN IF amount[inflow] gt 0 THEN set(category=@cat:Groceries)"

\* With a resolver, one call formatted the rule r1 and another a rule whose
\* set actions carry mapped names that need quoting, an unmapped identifier,
\* an identifier mapped to the empty name and an unmapped value with a space.
C27_Witness ==
  \E p, q \in Procs :
    /\ arg[p].tool = "formatRulesToDsl" /\ pc[p] = "done"
    /\ Get(arg[p].params, "resolver").given
    /\ Len(Get(arg[p].params, "rules")) = 1 /\ Get(arg[p].params, "rules")[1].id = "r1"
    /\ arg[q].tool = "formatRulesToDsl" /\ pc[q] = "done"
    /\ Get(arg[q].params, "resolver").given
    /\ Len(Get(arg[q].params, "rules")) = 1
    /\ LET actions == Get(arg[q].params, "rules")[1].actions
       IN /\ Get(arg[q].params, "rules")[1].id = "r4"
          /\ <<actions[1].value.v, actions[2].value.v, actions[3].value.v,
               actions[4].value.v, actions[5].value.v>>
               = <<"p3", "p9", "c3", "a3", "Petty cash">>

\* C28: when execute_aql_query or get_rules is invoked with budget_id X and
\* its guard succeeds, the aqlQuery / getRules call of that invocation is
\* made while X is the budget open in the client, in every interleaving with
\* overlapping invocations that activate a different budget.
C28_QueryRunsOnRequestedBudget ==
  [][\A p \in Procs :
       (/\ pc[p] = "guard_ret" /\ pc'[p] \in {"query_wait", "rules_wait"}
        /\ Truthy(arg[p].budget_id))
         => apiLoaded = IF result[p] = NoResult THEN arg[p].budget_id
                        ELSE result[p].id]_vars

\* C29: whenever no tool invocation is in flight, a non-null currentBudgetId
\* equals the identifier given to the most recently completed successful
\* loadBudget call of the client, for every interleaving of overlapping
\* ensureBudgetLoaded and call_api_method(loadBudget) invocations that target
\* different budgets.
C29_SessionFollowsLastLoad ==
  ((\A p \in Procs : ~InFlight(p)) /\ currentBudgetId # Null)
    => currentBudgetId = apiLoaded

====
